---- MODULE Spec2Model ----
(***************************************************************************)
(* Model of better-svg's svgTransform.ts: the reversible transcoder that   *)
(* lets SVGO process SVG fragments holding JSX / Vue / Svelte / Astro      *)
(* syntax.  Fragments are strings; every regular expression and scanner    *)
(* of the source is an operator over the characters of the string.         *)
(* Characters are one-character strings; Len, SubSeq and \o are used on    *)
(* strings.  The model covers the ASCII characters of AsciiTable plus the  *)
(* newline and tab characters; the backtick is not covered.                *)
(***************************************************************************)
EXTENDS Integers, Sequences, FiniteSets, TLC

VARIABLES
  svgContent,    \* the fragment handed to prepareForOptimization
  options,       \* OptimizationOptions: [useCamelCase : BOOLEAN]
  pc,            \* position of the caller: "start", "prepared", "optimized", "done"
  preparedSvg,   \* result field of prepareForOptimization
  wasJsx,        \* result field of prepareForOptimization / argument of finalize
  optimizedSvg,  \* output of the optimizer, argument of finalizeAfterOptimization
  finalSvg,      \* result of finalizeAfterOptimization
  content,       \* encodeJsx / decodeJsx: the expression text
  encoded,       \* encodeJsx / decodeJsx: the placeholder
  decoded,       \* encodeJsx / decodeJsx: the decoded text (Null for null)
  jsxAttr,       \* attribute maps: the key looked up
  svgAttr,       \* attribute maps: jsxToSvgAttributeMap[jsxAttr]
  backAttr,      \* attribute maps: svgToJsxAttributeMap[svgAttr]
  scanner,       \* the extractor that is running: its function name
  fragment,      \* the extractor's argument (content in the source)
  result,        \* the extractor's result so far
  cursor,        \* the extractor's currentIndex
  spreadCount,   \* replaceJsxSpreads: spreadIndex
  scanPc,        \* the extractor's position: "idle", "loop", "returned"
  calls,         \* the calls in progress: per caller its arguments, position and results
  attributeMaps, \* the module's jsxToSvgAttributeMap and svgToJsxAttributeMap objects
  documents,     \* the open text documents: URI -> text
  clock,         \* Date.now(), in milliseconds
  isDarkTheme,   \* whether the active colour theme is dark or high contrast
  config,        \* the betterSvg settings: [enableHover, showGutterPreview]
  cache,         \* SvgHoverProvider.cache: key -> [dataUri, sizeBytes, timestamp]
  hover,         \* what the last provideHover call returned (Null for null)
  applied,       \* the last WorkspaceEdit of betterSvg.optimizeFromHover (Null for none)
  decorationTypes, \* SvgGutterPreview.decorationTypes: URI -> sequence of decoration types
  types          \* the decoration types the window created: id -> [uri, update, disposed]

vars == <<svgContent, options, pc, preparedSvg, wasJsx, optimizedSvg, finalSvg,
          content, encoded, decoded, jsxAttr, svgAttr, backAttr,
          scanner, fragment, result, cursor, spreadCount, scanPc,
          calls, attributeMaps,
          documents, clock, isDarkTheme, config, cache, hover, applied,
          decorationTypes, types>>

pipelineVars == <<svgContent, options, pc, preparedSvg, wasJsx, optimizedSvg, finalSvg>>
codecVars == <<content, encoded, decoded>>
mapVars == <<jsxAttr, svgAttr, backAttr>>
scanVars == <<scanner, fragment, result, cursor, spreadCount, scanPc>>
callVars == <<calls, attributeMaps>>
workspaceVars == <<documents, clock, isDarkTheme, config>>
hoverVars == <<cache, hover, applied>>
gutterVars == <<decorationTypes, types>>
editorVars == <<workspaceVars, hoverVars, gutterVars>>
hostVars == <<callVars, editorVars>>

\* JavaScript's null and undefined; a value of type string | null or
\* string | undefined that is a string v is the record Str(v)
Null == [null |-> TRUE]
Undefined == [undefined |-> TRUE]
Str(v) == [str |-> v]

(***************************************************************************)
(* Characters and strings                                                  *)
(***************************************************************************)
Min(a, b) == IF a < b THEN a ELSE b
Max(a, b) == IF a > b THEN a ELSE b

\* content[i] with a zero-based index; "" when out of range
At(s, i) == IF i >= 0 /\ i < Len(s) THEN SubSeq(s, i + 1, i + 1) ELSE ""

\* content.slice(from, to) with zero-based, non-negative indices
Slice(s, from, to) == SubSeq(s, Min(from, Len(s)) + 1, Min(to, Len(s)))

\* content.slice(from)
SliceFrom(s, from) == SubSeq(s, Min(from, Len(s)) + 1, Len(s))

\* content.startsWith(p, i)
StartsWithAt(s, p, i) == i >= 0 /\ i + Len(p) <= Len(s) /\ SubSeq(s, i + 1, i + Len(p)) = p

StartsWith(s, p) == StartsWithAt(s, p, 0)

EndsWith(s, p) == Len(p) <= Len(s) /\ SubSeq(s, Len(s) - Len(p) + 1, Len(s)) = p

\* the least element of a non-empty set of integers
First(S) == CHOOSE x \in S : \A y \in S : x <= y

\* the greatest element of a non-empty set of integers
Last(S) == CHOOSE x \in S : \A y \in S : x >= y

\* content.indexOf(p, from); -1 when absent
IndexOf(s, p, from) ==
  LET hits == {i \in Max(from, 0)..(Len(s) - Len(p)) : StartsWithAt(s, p, i)}
  IN IF hits = {} THEN -1 ELSE First(hits)

\* content.lastIndexOf(p, from); -1 when absent
LastIndexOf(s, p, from) ==
  LET hits == {i \in 0..Min(from, Len(s) - Len(p)) : StartsWithAt(s, p, i)}
  IN IF hits = {} THEN -1 ELSE Last(hits)

Includes(s, p) == IndexOf(s, p, 0) # -1

CharsOf(s) == {SubSeq(s, i, i) : i \in 1..Len(s)}

LowerChars == CharsOf("abcdefghijklmnopqrstuvwxyz")
UpperChars == CharsOf("ABCDEFGHIJKLMNOPQRSTUVWXYZ")
DigitChars == CharsOf("0123456789")
\* \w of a JavaScript regular expression
WordChars == LowerChars \cup UpperChars \cup DigitChars \cup {"_"}
\* \s of a JavaScript regular expression (the characters the model covers)
SpaceChars == {" ", "\n", "\t", "\r", "\f"}

IsWord(c) == c \in WordChars
IsSpace(c) == c \in SpaceChars

\* \b at zero-based position i: exactly one side is a word character
WordBoundary(s, i) == IsWord(At(s, i - 1)) # IsWord(At(s, i))

\* String.prototype.trim
Trim(s) ==
  LET inked == {i \in 0..(Len(s) - 1) : ~IsSpace(At(s, i))}
  IN IF inked = {} THEN "" ELSE Slice(s, First(inked), Last(inked) + 1)

\* Number to decimal string, as in the template literal `${spreadIndex}`
RECURSIVE NumberToString(_)
NumberToString(n) ==
  IF n < 10 THEN At("0123456789", n)
  ELSE NumberToString(n \div 10) \o At("0123456789", n % 10)

(***************************************************************************)
(* Base64 and the placeholder codec                                        *)
(***************************************************************************)
\* the printable ASCII characters in code order: 32 to 95 and 97 to 126 (the
\* backtick, code 96, cannot be written in a TLA+ string and is left out)
AsciiLow == " !\"#$%&'()*+,-./0123456789:;<=>?@ABCDEFGHIJKLMNOPQRSTUVWXYZ[\\]^_"
AsciiHigh == "abcdefghijklmnopqrstuvwxyz{|}~"
AsciiTable == AsciiLow \o AsciiHigh

CharCode ==
  [c \in CharsOf(AsciiTable) \cup {"\n", "\t"} |->
     IF c = "\n" THEN 10
     ELSE IF c = "\t" THEN 9
     ELSE IF c \in CharsOf(AsciiLow)
     THEN 31 + CHOOSE i \in 1..Len(AsciiLow) : SubSeq(AsciiLow, i, i) = c
     ELSE 96 + CHOOSE i \in 1..Len(AsciiHigh) : SubSeq(AsciiHigh, i, i) = c]

\* Buffer.from(content): the UTF-8 bytes of an ASCII string are its character codes
Utf8Bytes(s) == [i \in 1..Len(s) |-> CharCode[SubSeq(s, i, i)]]

\* buffer.toString('utf-8'); a byte that is no character of the model decodes
\* to the form feed, which no input of the model holds
ByteToChar(b) ==
  IF b = 10 THEN "\n"
  ELSE IF b = 9 THEN "\t"
  ELSE IF b >= 32 /\ b <= 95 THEN SubSeq(AsciiLow, b - 31, b - 31)
  ELSE IF b >= 97 /\ b <= 126 THEN SubSeq(AsciiHigh, b - 96, b - 96)
  ELSE "\f"

RECURSIVE Utf8ToString(_)
Utf8ToString(bytes) ==
  IF Len(bytes) = 0 THEN ""
  ELSE IF Len(bytes) = 1 THEN ByteToChar(bytes[1])
  ELSE LET half == Len(bytes) \div 2
       IN Utf8ToString(SubSeq(bytes, 1, half)) \o Utf8ToString(SubSeq(bytes, half + 1, Len(bytes)))

Base64Alphabet == "ABCDEFGHIJKLMNOPQRSTUVWXYZabcdefghijklmnopqrstuvwxyz0123456789+/"

Base64Digit(n) == SubSeq(Base64Alphabet, n + 1, n + 1)

\* buffer.toString('base64'): three bytes give four digits, '=' pads the last group
\* the four digits of the group that starts at bytes[i]
Base64Group(bytes, i) ==
  IF i = Len(bytes) THEN
    Base64Digit(bytes[i] \div 4) \o Base64Digit((bytes[i] % 4) * 16) \o "=="
  ELSE IF i + 1 = Len(bytes) THEN
    Base64Digit(bytes[i] \div 4)
      \o Base64Digit((bytes[i] % 4) * 16 + bytes[i + 1] \div 16)
      \o Base64Digit((bytes[i + 1] % 16) * 4) \o "="
  ELSE
    Base64Digit(bytes[i] \div 4)
      \o Base64Digit((bytes[i] % 4) * 16 + bytes[i + 1] \div 16)
      \o Base64Digit((bytes[i + 1] % 16) * 4 + bytes[i + 2] \div 64)
      \o Base64Digit(bytes[i + 2] % 64)

\* buffer.toString('base64'): three bytes give four digits, '=' pads the last group
Base64Encode(bytes) ==
  LET groups == (Len(bytes) + 2) \div 3
      joined[g \in 0..groups] ==
        IF g = 0 THEN "" ELSE joined[g - 1] \o Base64Group(bytes, 3 * g - 2)
  IN joined[groups]

\* value of a base64 digit; '-' and '_' are accepted as 62 and 63; 64 = no digit
Unbase64 ==
  [c \in CharsOf(AsciiTable) \cup {"\n", "\t", "\f", "\r"} |->
     IF c \in CharsOf(Base64Alphabet)
     THEN (CHOOSE i \in 1..64 : SubSeq(Base64Alphabet, i, i) = c) - 1
     ELSE IF c = "-" THEN 62
     ELSE IF c = "_" THEN 63
     ELSE 64]

\* the digits Buffer.from(b64, 'base64') reads from s: characters that are
\* no digit are skipped
RECURSIVE DigitsOf(_)
DigitsOf(s) ==
  IF Len(s) = 0 THEN <<>>
  ELSE IF Len(s) = 1 THEN (IF Unbase64[s] < 64 THEN <<Unbase64[s]>> ELSE <<>>)
  ELSE LET half == Len(s) \div 2
       IN DigitsOf(SubSeq(s, 1, half)) \o DigitsOf(SubSeq(s, half + 1, Len(s)))

\* the first '=' ends the input
Base64Digits(s) ==
  LET stop == IndexOf(s, "=", 0) IN DigitsOf(IF stop = -1 THEN s ELSE Slice(s, 0, stop))

\* four digits give three bytes; a last group of two or three digits gives one or two
RECURSIVE Base64Bytes(_)
Base64Bytes(d) ==
  IF Len(d) < 2 THEN <<>>
  ELSE IF Len(d) = 2 THEN <<d[1] * 4 + d[2] \div 16>>
  ELSE IF Len(d) = 3 THEN <<d[1] * 4 + d[2] \div 16, (d[2] % 16) * 16 + d[3] \div 4>>
  ELSE <<d[1] * 4 + d[2] \div 16, (d[2] % 16) * 16 + d[3] \div 4, (d[3] % 4) * 64 + d[4]>>
         \o Base64Bytes(SubSeq(d, 5, Len(d)))

Base64Decode(s) == Base64Bytes(Base64Digits(s))

BASE64_PREFIX == "__JSX_BASE64__"
BASE64_SUFFIX == "__"

encodeJsx(c) == BASE64_PREFIX \o Base64Encode(Utf8Bytes(c)) \o BASE64_SUFFIX

\* decodeJsx slicing off the prefix only
decodeJsx_KeepsSuffix(c) ==
  IF StartsWith(c, BASE64_PREFIX) /\ EndsWith(c, BASE64_SUFFIX)
  THEN Str(Utf8ToString(Base64Decode(SliceFrom(c, Len(BASE64_PREFIX)))))
  ELSE Null

decodeJsx(c) ==
  IF StartsWith(c, BASE64_PREFIX) /\ EndsWith(c, BASE64_SUFFIX)
  THEN Str(Utf8ToString(Base64Decode(
             Slice(c, Len(BASE64_PREFIX), Len(c) - Len(BASE64_SUFFIX)))))
  ELSE Null

(***************************************************************************)
(* The attribute spelling maps                                             *)
(***************************************************************************)
\* A Record<string, string> is the sequence of its [key, value] entries in
\* insertion order, which is the order of Object.entries and Object.keys.
ObjectKeys(rec) == [i \in 1..Len(rec) |-> rec[i][1]]

HasKey(rec, k) == \E i \in 1..Len(rec) : rec[i][1] = k

\* rec[k]; undefined when k is no key
Get(rec, k) ==
  IF HasKey(rec, k) THEN Str(rec[CHOOSE i \in 1..Len(rec) : rec[i][1] = k][2]) ELSE Undefined

\* Object.fromEntries: a later entry with a key already present overwrites its value
RECURSIVE FromEntries(_, _)
FromEntries(entries, rec) ==
  IF entries = <<>> THEN rec
  ELSE LET e == Head(entries) IN
       FromEntries(Tail(entries),
         IF HasKey(rec, e[1])
         THEN [i \in 1..Len(rec) |-> IF rec[i][1] = e[1] THEN e ELSE rec[i]]
         ELSE Append(rec, e))

jsxToSvgAttributeMap ==
  <<
     <<"strokeWidth", "stroke-width">>,
     <<"strokeLinecap", "stroke-linecap">>,
     <<"strokeLinejoin", "stroke-linejoin">>,
     <<"strokeDasharray", "stroke-dasharray">>,
     <<"strokeDashoffset", "stroke-dashoffset">>,
     <<"strokeMiterlimit", "stroke-miterlimit">>,
     <<"strokeOpacity", "stroke-opacity">>,
     <<"fillOpacity", "fill-opacity">>,
     <<"fillRule", "fill-rule">>,
     <<"clipPath", "clip-path">>,
     <<"clipRule", "clip-rule">>,
     <<"fontFamily", "font-family">>,
     <<"fontSize", "font-size">>,
     <<"fontStyle", "font-style">>,
     <<"fontWeight", "font-weight">>,
     <<"textAnchor", "text-anchor">>,
     <<"textDecoration", "text-decoration">>,
     <<"dominantBaseline", "dominant-baseline">>,
     <<"alignmentBaseline", "alignment-baseline">>,
     <<"baselineShift", "baseline-shift">>,
     <<"stopColor", "stop-color">>,
     <<"stopOpacity", "stop-opacity">>,
     <<"colorInterpolation", "color-interpolation">>,
     <<"colorInterpolationFilters", "color-interpolation-filters">>,
     <<"floodColor", "flood-color">>,
     <<"floodOpacity", "flood-opacity">>,
     <<"lightingColor", "lighting-color">>,
     <<"markerStart", "marker-start">>,
     <<"markerMid", "marker-mid">>,
     <<"markerEnd", "marker-end">>,
     <<"paintOrder", "paint-order">>,
     <<"vectorEffect", "vector-effect">>,
     <<"shapeRendering", "shape-rendering">>,
     <<"imageRendering", "image-rendering">>,
     <<"pointerEvents", "pointer-events">>,
     <<"xlinkHref", "xlink:href">>
  >>

\* the reverse map built without swapping key and value
svgToJsxAttributeMap_NotSwapped == FromEntries(jsxToSvgAttributeMap, <<>>)

svgToJsxAttributeMap ==
  FromEntries([i \in 1..Len(jsxToSvgAttributeMap) |->
                 <<jsxToSvgAttributeMap[i][2], jsxToSvgAttributeMap[i][1]>>], <<>>)


(***************************************************************************)
(* Expression extraction: the brace-balance scanners                       *)
(***************************************************************************)
\* the characters that open a string literal in the scan loops; the source
\* also accepts the backtick, which the model does not cover
StringQuotes == {"\"", "'"}

\* The scan loop shared by the three extractors: from index j with balance 1,
\* returns whether the matching brace was found and the index after it.
\* scan[st] is the inner loop entered with the locals st
MatchBrace(s, j, balance, inString, stringChar) ==
  LET scan[st \in [j : 0..Len(s), balance : 0..(Len(s) + 1), inString : BOOLEAN,
                   stringChar : StringQuotes \cup {""}]] ==
        IF st.j >= Len(s) THEN [found |-> FALSE, j |-> st.j]
        ELSE
          LET char == At(s, st.j)
              prevChar == At(s, st.j - 1)
              inString2 ==
                IF st.inString THEN ~(char = st.stringChar /\ prevChar # "\\")
                ELSE char \in StringQuotes
              stringChar2 ==
                IF ~st.inString /\ char \in StringQuotes THEN char ELSE st.stringChar
              balance2 ==
                IF st.inString \/ char \in StringQuotes THEN st.balance
                ELSE IF char = "{" THEN st.balance + 1
                ELSE IF char = "}" THEN st.balance - 1
                ELSE st.balance
          IN IF ~inString2 /\ balance2 = 0 THEN [found |-> TRUE, j |-> st.j + 1]
             ELSE scan[[j |-> st.j + 1, balance |-> balance2, inString |-> inString2,
                        stringChar |-> stringChar2]]
  IN scan[[j |-> j, balance |-> balance, inString |-> inString, stringChar |-> stringChar]]

\* The loops below return the text appended to result from currentIndex on.
RECURSIVE ReplaceJsxExpressionsFrom(_, _)
ReplaceJsxExpressionsFrom(s, currentIndex) ==
  IF currentIndex >= Len(s) THEN ""
  ELSE
    LET startIdx == IndexOf(s, "={", currentIndex) IN
    IF startIdx = -1 THEN SliceFrom(s, currentIndex)
    ELSE
      LET m == MatchBrace(s, startIdx + 2, 1, FALSE, "") IN
      IF m.found
      THEN Slice(s, currentIndex, startIdx)
             \o "=\"" \o encodeJsx(Slice(s, startIdx + 2, m.j - 1)) \o "\""
             \o ReplaceJsxExpressionsFrom(s, m.j)
      ELSE Slice(s, currentIndex, startIdx) \o "={"
             \o ReplaceJsxExpressionsFrom(s, startIdx + 2)

replaceJsxExpressions(s) == ReplaceJsxExpressionsFrom(s, 0)

RECURSIVE ReplaceTextInterpolationsFrom(_, _)
ReplaceTextInterpolationsFrom(s, currentIndex) ==
  IF currentIndex >= Len(s) THEN ""
  ELSE
    LET startIdx == IndexOf(s, "{", currentIndex) IN
    IF startIdx = -1 THEN SliceFrom(s, currentIndex)
    ELSE
      LET lastOpen == LastIndexOf(s, ">", startIdx)
          lastClose == LastIndexOf(s, "<", startIdx)
          isInsideTag == lastOpen # -1 /\ lastOpen > lastClose
      IN
      IF (startIdx > 0 /\ At(s, startIdx - 1) = "=") \/ ~isInsideTag
      THEN Slice(s, currentIndex, startIdx + 1)
             \o ReplaceTextInterpolationsFrom(s, startIdx + 1)
      ELSE IF StartsWithAt(s, "/*", startIdx + 1)
      THEN Slice(s, currentIndex, startIdx + 1)
             \o ReplaceTextInterpolationsFrom(s, startIdx + 1)
      ELSE
        LET m == MatchBrace(s, startIdx + 1, 1, FALSE, "") IN
        IF m.found
        THEN Slice(s, currentIndex, startIdx)
               \o encodeJsx(Slice(s, startIdx + 1, m.j - 1))
               \o ReplaceTextInterpolationsFrom(s, m.j)
        ELSE Slice(s, currentIndex, startIdx) \o "{"
               \o ReplaceTextInterpolationsFrom(s, startIdx + 1)

replaceTextInterpolations(s) == ReplaceTextInterpolationsFrom(s, 0)

RECURSIVE ReplaceJsxSpreadsFrom(_, _, _)
ReplaceJsxSpreadsFrom(s, currentIndex, spreadIndex) ==
  IF currentIndex >= Len(s) THEN ""
  ELSE
    LET startIdx == IndexOf(s, "{...", currentIndex) IN
    IF startIdx = -1 THEN SliceFrom(s, currentIndex)
    ELSE
      LET m == MatchBrace(s, startIdx + 4, 1, FALSE, "") IN
      IF m.found
      THEN Slice(s, currentIndex, startIdx)
             \o "data-spread-" \o NumberToString(spreadIndex) \o "=\""
             \o encodeJsx(Trim(Slice(s, startIdx + 4, m.j - 1))) \o "\""
             \o ReplaceJsxSpreadsFrom(s, m.j, spreadIndex + 1)
      ELSE Slice(s, currentIndex, startIdx) \o "{..."
             \o ReplaceJsxSpreadsFrom(s, startIdx + 4, spreadIndex)

\* replaceJsxSpreads with a counter that starts at one
replaceJsxSpreads_OneBased(s) == ReplaceJsxSpreadsFrom(s, 0, 1)

replaceJsxSpreads(s) == ReplaceJsxSpreadsFrom(s, 0, 0)

(***************************************************************************)
(* Comment removal                                                         *)
(***************************************************************************)
\* content.replace(/\{\/\*[\s\S]*?\*\/\}/g, '')
RECURSIVE RemoveBlockComments(_, _)
RemoveBlockComments(s, from) ==
  LET open == IndexOf(s, "{/*", from)
      close == IF open = -1 THEN -1 ELSE IndexOf(s, "*/}", open + 3)
  IN IF close = -1 THEN SliceFrom(s, from)
     ELSE Slice(s, from, open) \o RemoveBlockComments(s, close + 3)

\* line terminators of ^, $ and . in a JavaScript regular expression
LineTerminators == {"\n", "\r"}

IsLineStart(s, i) == i = 0 \/ At(s, i - 1) \in LineTerminators

RECURSIVE SkipSpaces(_, _)
SkipSpaces(s, i) == IF i < Len(s) /\ IsSpace(At(s, i)) THEN SkipSpaces(s, i + 1) ELSE i

RECURSIVE LineEnd(_, _)
LineEnd(s, i) ==
  IF i >= Len(s) \/ At(s, i) \in LineTerminators THEN i ELSE LineEnd(s, i + 1)

\* does /^\s*\/\// (flag m) match at index i
LineCommentAt(s, i) == IsLineStart(s, i) /\ StartsWithAt(s, "//", SkipSpaces(s, i))

\* content.replace(/^\s*\/\/.*$/gm, '')
RECURSIVE RemoveLineComments(_, _)
RemoveLineComments(s, from) ==
  LET starts == {i \in from..(Len(s) - 1) : LineCommentAt(s, i)} IN
  IF starts = {} THEN SliceFrom(s, from)
  ELSE LET start == First(starts)
       IN Slice(s, from, start) \o RemoveLineComments(s, LineEnd(s, SkipSpaces(s, start)))

removeJsxComments(s) == RemoveLineComments(RemoveBlockComments(s, 0), 0)

(***************************************************************************)
(* Dialect detection                                                       *)
(***************************************************************************)
\* /=\{[^}]+\}/ and /\{\.\.\.[^}]+\}/: the opener, one character that is no
\* '}', and a '}' somewhere after it
OpenerWithBody(s, opener) ==
  \E i \in 0..(Len(s) - 1) :
    /\ StartsWithAt(s, opener, i)
    /\ i + Len(opener) < Len(s)
    /\ At(s, i + Len(opener)) # "}"
    /\ IndexOf(s, "}", i + Len(opener) + 1) # -1

\* the indices of the '=' characters of s
AssignPositions(s) == {e \in 0..(Len(s) - 1) : At(s, e) = "="}

\* the start indices of the matches of new RegExp(`\\b${name}=`, 'g'): name
\* right before an '=' (eqs holds the indices of the '=' of s) and a word
\* boundary before name
WordAssignMatches(s, name, eqs) ==
  { e - Len(name) :
      e \in {x \in eqs : /\ StartsWithAt(s, name, x - Len(name))
                         /\ WordBoundary(s, x - Len(name))} }

\* new RegExp(`\\b${name}=`).test(s)
HasWordAssign(s, name) == WordAssignMatches(s, name, AssignPositions(s)) # {}

\* the directive prefixes, in the order of the alternation
DirectivePrefixes ==
  <<"v-", "client:", "on:", "bind:", "class:", "use:", "let:", "animate:", "transition:",
    ":", "@">>

\* [a-zA-Z0-9-.:]
DirectiveNameChars == LowerChars \cup UpperChars \cup DigitChars \cup {"-", ".", ":"}

RECURSIVE RunEnd(_, _, _)
RunEnd(s, i, chars) ==
  IF i < Len(s) /\ At(s, i) \in chars THEN RunEnd(s, i + 1, chars) ELSE i

\* /^(xmlns|xlink|xml|sketch):/.test(attr)
IsNamespaced(attr) ==
  \E ns \in {"xmlns", "xlink", "xml", "sketch"} : StartsWith(attr, ns \o ":")

\* /^(client:|v-|on:|bind:|class:|use:|let:|animate:|transition:|[:@])/.test(attr)
HasDirectivePrefix(attr) ==
  \E k \in 1..Len(DirectivePrefixes) : StartsWith(attr, DirectivePrefixes[k])

\* does (v-|client:|...|[:@])[a-zA-Z0-9-.:]+ match at index i with prefix k
DirectiveAt(s, i, k) ==
  /\ StartsWithAt(s, DirectivePrefixes[k], i)
  /\ At(s, i + Len(DirectivePrefixes[k])) \in DirectiveNameChars

\* the directive matches without the (?:\s|^) anchor of the pattern
DirectiveMatches_Unanchored(s) ==
  { LET k == CHOOSE k \in 1..Len(DirectivePrefixes) : DirectiveAt(s, q, k)
    IN Slice(s, q, RunEnd(s, q + Len(DirectivePrefixes[k]), DirectiveNameChars)) :
      q \in { i \in 0..(Len(s) - 1) :
                \E k \in 1..Len(DirectivePrefixes) : DirectiveAt(s, i, k) } }

\* the trimmed matches of
\* /(?:\s|^)(v-|client:|...|[:@])[a-zA-Z0-9-.:]+/g: at q, the index after the
\* whitespace (or 0), a prefix followed by the longest run of name characters
DirectiveMatches(s) ==
  { LET k == CHOOSE k \in 1..Len(DirectivePrefixes) : DirectiveAt(s, q, k)
    IN Slice(s, q, RunEnd(s, q + Len(DirectivePrefixes[k]), DirectiveNameChars)) :
      q \in { i \in 0..(Len(s) - 1) :
                /\ i = 0 \/ IsSpace(At(s, i - 1))
                /\ \E k \in 1..Len(DirectivePrefixes) : DirectiveAt(s, i, k) } }

\* s.replace(/<style[\s\S]*?<\/style>/gi, '') for the lower-case spelling
RECURSIVE RemoveStyleBlocks(_, _)
RemoveStyleBlocks(s, from) ==
  LET open == IndexOf(s, "<style", from)
      close == IF open = -1 THEN -1 ELSE IndexOf(s, "</style>", open + 6)
  IN IF close = -1 THEN SliceFrom(s, from)
     ELSE Slice(s, from, open) \o RemoveStyleBlocks(s, close + 8)

\* /\{[\s\S]*?\}/
HasBracePair(s) ==
  LET open == IndexOf(s, "{", 0) IN open # -1 /\ IndexOf(s, "}", open + 1) # -1

HasExpressionValue(s) == OpenerWithBody(s, "={")
HasSpread(s) == OpenerWithBody(s, "{...")
HasClassName(s) == HasWordAssign(s, "className")
HasCamelCaseAttribute(s) ==
  LET eqs == AssignPositions(s) IN
  \E k \in 1..Len(jsxToSvgAttributeMap) :
    WordAssignMatches(s, jsxToSvgAttributeMap[k][1], eqs) # {}
HasDirective(s) == \E attr \in DirectiveMatches(s) : ~IsNamespaced(attr)
HasJsxComment(s) ==
  LET open == IndexOf(s, "{/*", 0) IN open # -1 /\ IndexOf(s, "*/}", open + 3) # -1
HasLineComment(s) == \E i \in 0..(Len(s) - 1) : LineCommentAt(s, i)
HasOtherBraces(s) == HasBracePair(RemoveStyleBlocks(s, 0))

isJsxSvg(s) ==
  \/ HasExpressionValue(s)
  \/ HasSpread(s)
  \/ HasClassName(s)
  \/ HasCamelCaseAttribute(s)
  \/ HasDirective(s)
  \/ HasJsxComment(s)
  \/ HasLineComment(s)
  \/ HasOtherBraces(s)

(***************************************************************************)
(* Attribute protection                                                    *)
(***************************************************************************)
\* [a-zA-Z0-9-:@.]
AttrNameChars == LowerChars \cup UpperChars \cup DigitChars \cup {"-", ":", "@", "."}

\* first index >= i holding a character of chars; Len(s) when there is none
FindChar(s, i, chars) ==
  LET hits == {j \in i..(Len(s) - 1) : At(s, j) \in chars}
  IN IF hits = {} THEN Len(s) ELSE First(hits)

\* s.replace(/x/g, y) for a literal x
RECURSIVE ReplaceAllFrom(_, _, _, _)
ReplaceAllFrom(s, x, y, from) ==
  LET i == IndexOf(s, x, from) IN
  IF i = -1 THEN SliceFrom(s, from)
  ELSE Slice(s, from, i) \o y \o ReplaceAllFrom(s, x, y, i + Len(x))

ReplaceAll(s, x, y) == ReplaceAllFrom(s, x, y, 0)

\* the sanitization with the dot written like the colon
SafeAttr_DotAsColon(attr) ==
  ReplaceAll(ReplaceAll(ReplaceAll(attr, ":", "__COLON__"), "@", "__AT__"), ".", "__COLON__")

\* attr.replace(/:/g, '__COLON__').replace(/@/g, '__AT__').replace(/\./g, '__DOT__')
SafeAttr(attr) ==
  ReplaceAll(ReplaceAll(ReplaceAll(attr, ":", "__COLON__"), "@", "__AT__"), ".", "__DOT__")

TEMP_PREFIX == "data-better-svg-temp-"

\* the callback of protectEncodedAttributes; value is Undefined for a match
\* without the optional group
ProtectMatch(s, match, attr, value, offset) ==
  LET prevChar == At(s, offset - 1)
      isEncoded == value # Undefined /\ Includes(value.str, BASE64_PREFIX)
      isDirective == HasDirectivePrefix(attr) /\ ~IsNamespaced(attr)
  IN
  IF offset > 0 /\ ~(IsSpace(prevChar) \/ prevChar = "<" \/ prevChar = ">") THEN match
  ELSE IF StartsWith(attr, TEMP_PREFIX) THEN match
  ELSE IF ~isEncoded /\ ~isDirective THEN match
  ELSE IF value # Undefined THEN TEMP_PREFIX \o SafeAttr(attr) \o "=\"" \o value.str \o "\""
  ELSE TEMP_PREFIX \o SafeAttr(attr) \o "=\"__BOOLEAN__\""

\* content.replace(/([a-zA-Z0-9-:@.]+)(?:=(["'])([\s\S]*?)\2)?/g, callback):
\* the longest run of name characters and, when '=', a quote and a later
\* quote of the same kind follow, the quoted value
RECURSIVE ProtectFrom(_, _)
ProtectFrom(s, from) ==
  LET offset == FindChar(s, from, AttrNameChars) IN
  IF offset >= Len(s) THEN SliceFrom(s, from)
  ELSE
    LET nameEnd == RunEnd(s, offset, AttrNameChars)
        attr == Slice(s, offset, nameEnd)
        quote == At(s, nameEnd + 1)
        closing == IF At(s, nameEnd) = "=" /\ quote \in {"\"", "'"}
                   THEN IndexOf(s, quote, nameEnd + 2) ELSE -1
        value == IF closing = -1 THEN Undefined ELSE Str(Slice(s, nameEnd + 2, closing))
        matchEnd == IF closing = -1 THEN nameEnd ELSE closing + 1
    IN Slice(s, from, offset)
         \o ProtectMatch(s, Slice(s, offset, matchEnd), attr, value, offset)
         \o ProtectFrom(s, matchEnd)

protectEncodedAttributes(s) == ProtectFrom(s, 0)

\* [a-zA-Z0-9-_]
SafeAttrChars == LowerChars \cup UpperChars \cup DigitChars \cup {"-", "_"}

\* the callback of restoreEncodedAttributes
RestoreMatch(safeAttr, value) ==
  LET attr == ReplaceAll(ReplaceAll(ReplaceAll(safeAttr, "__COLON__", ":"),
                                    "__AT__", "@"), "__DOT__", ".")
  IN IF value = "__BOOLEAN__" THEN attr ELSE attr \o "=\"" \o value \o "\""

\* content.replace(/data-better-svg-temp-([a-zA-Z0-9-_]+)="([^"]*)"/g, callback)
RECURSIVE RestoreFrom(_, _)
RestoreFrom(s, from) ==
  LET start == IndexOf(s, TEMP_PREFIX, from) IN
  IF start = -1 THEN SliceFrom(s, from)
  ELSE
    LET nameStart == start + Len(TEMP_PREFIX)
        nameEnd == RunEnd(s, nameStart, SafeAttrChars)
        closing == IF nameEnd > nameStart /\ StartsWithAt(s, "=\"", nameEnd)
                   THEN IndexOf(s, "\"", nameEnd + 2) ELSE -1
    IN IF closing = -1
       THEN Slice(s, from, start + 1) \o RestoreFrom(s, start + 1)
       ELSE Slice(s, from, start)
              \o RestoreMatch(Slice(s, nameStart, nameEnd), Slice(s, nameEnd + 2, closing))
              \o RestoreFrom(s, closing + 1)

restoreEncodedAttributes(s) == RestoreFrom(s, 0)

(***************************************************************************)
(* The forward and the reverse pipeline                                    *)
(***************************************************************************)
\* s with the len characters at every index of starts replaced by replacement
RECURSIVE SpliceAt(_, _, _, _, _)
SpliceAt(s, starts, len, replacement, from) ==
  IF starts = {} THEN SliceFrom(s, from)
  ELSE LET i == First(starts)
       IN Slice(s, from, i) \o replacement
            \o SpliceAt(s, starts \ {i}, len, replacement, i + len)

\* s.replace(new RegExp(`\\b${name}=`, 'g'), `${replacement}=`)
ReplaceWordAssign(s, name, replacement) ==
  SpliceAt(s, WordAssignMatches(s, name, AssignPositions(s)), Len(name), replacement, 0)

\* for (const [from, to] of Object.entries(map)) s = s.replace(/\bfrom=/g, 'to=')
\* from entry k on: the entries without a match leave s as it is
RECURSIVE RenameAttributes(_, _, _)
RenameAttributes(s, map, k) ==
  LET eqs == AssignPositions(s)
      matching == {j \in k..Len(map) : WordAssignMatches(s, map[j][1], eqs) # {}}
  IN IF matching = {} THEN s
     ELSE LET j == First(matching)
          IN RenameAttributes(ReplaceWordAssign(s, map[j][1], map[j][2]), map, j + 1)

convertJsxToSvg(s, opts) ==
  LET noComments == removeJsxComments(s)
      extracted == replaceJsxSpreads(replaceTextInterpolations(replaceJsxExpressions(noComments)))
      normalized ==
        IF opts.useCamelCase
        THEN RenameAttributes(ReplaceWordAssign(extracted, "className", "class"),
                              jsxToSvgAttributeMap, 1)
        ELSE extracted
  IN protectEncodedAttributes(normalized)

\* the callback of the spread restore
RestoreSpread(value) ==
  LET d == decodeJsx(value) IN
  IF d # Null THEN "{..." \o d.str \o "}"
  ELSE "{..." \o ReplaceAll(ReplaceAll(ReplaceAll(ReplaceAll(value,
                   "&quot;", "\""), "&gt;", ">"), "&lt;", "<"), "&amp;", "&") \o "}"

\* s.replace(/\bdata-spread-\d+="([^"]*)"/g, callback)
RECURSIVE RestoreSpreadsFrom(_, _)
RestoreSpreadsFrom(s, from) ==
  LET start == IndexOf(s, "data-spread-", from) IN
  IF start = -1 THEN SliceFrom(s, from)
  ELSE
    LET digitsStart == start + Len("data-spread-")
        digitsEnd == RunEnd(s, digitsStart, DigitChars)
        closing == IF /\ WordBoundary(s, start)
                      /\ digitsEnd > digitsStart
                      /\ StartsWithAt(s, "=\"", digitsEnd)
                   THEN IndexOf(s, "\"", digitsEnd + 2) ELSE -1
    IN IF closing = -1
       THEN Slice(s, from, start + 1) \o RestoreSpreadsFrom(s, start + 1)
       ELSE Slice(s, from, start)
              \o RestoreSpread(Slice(s, digitsEnd + 2, closing))
              \o RestoreSpreadsFrom(s, closing + 1)

\* index of the quote that closes a value matching __JSX_BASE64__[^"']*?__
\* opened at valueStart, -1 when the value has no such form
PlaceholderValueEnd(s, valueStart, quote) ==
  LET closing == FindChar(s, valueStart + Len(BASE64_PREFIX), {"\"", "'"}) IN
  IF /\ StartsWithAt(s, BASE64_PREFIX, valueStart)
     /\ closing < Len(s)
     /\ At(s, closing) = quote
     /\ closing - valueStart >= Len(BASE64_PREFIX) + Len(BASE64_SUFFIX)
     /\ StartsWithAt(s, BASE64_SUFFIX, closing - Len(BASE64_SUFFIX))
  THEN closing ELSE -1

\* the callback of the two placeholder decoders
DecodeMatch(match, before, value, after) ==
  LET d == decodeJsx(value) IN IF d # Null THEN before \o "{" \o d.str \o "}" \o after ELSE match

\* s.replace(/([a-zA-Z0-9-:@.]+)=(["'])(__JSX_BASE64__[^"']*?__)\2/g, callback)
\* a match is a '=' with the run of name characters before it (offset is where
\* the run starts) and a quoted placeholder after it
RECURSIVE DecodeAttributesFrom(_, _)
DecodeAttributesFrom(s, from) ==
  LET assign == IndexOf(s, "=", from)
      quote == At(s, assign + 1)
      offset == IF assign = -1 THEN -1
                ELSE Last({from - 1} \cup {i \in from..(assign - 1) :
                                             At(s, i) \notin AttrNameChars}) + 1
      closing == IF assign # -1 /\ offset < assign /\ quote \in {"\"", "'"}
                 THEN PlaceholderValueEnd(s, assign + 2, quote) ELSE -1
  IN IF assign = -1 THEN SliceFrom(s, from)
     ELSE IF closing = -1
     THEN Slice(s, from, assign + 1) \o DecodeAttributesFrom(s, assign + 1)
     ELSE Slice(s, from, offset)
            \o DecodeMatch(Slice(s, offset, closing + 1), Slice(s, offset, assign + 1),
                           Slice(s, assign + 2, closing), "")
            \o DecodeAttributesFrom(s, closing + 1)

\* s.replace(/>(__JSX_BASE64__[^<]*?__)</g, callback)
RECURSIVE DecodeTextFrom(_, _)
DecodeTextFrom(s, from) ==
  LET start == IndexOf(s, ">" \o BASE64_PREFIX, from) IN
  IF start = -1 THEN SliceFrom(s, from)
  ELSE
    LET closing == FindChar(s, start + 1 + Len(BASE64_PREFIX), {"<"})
        ok == /\ closing < Len(s)
              /\ closing - (start + 1) >= Len(BASE64_PREFIX) + Len(BASE64_SUFFIX)
              /\ StartsWithAt(s, BASE64_SUFFIX, closing - Len(BASE64_SUFFIX))
    IN IF ~ok
       THEN Slice(s, from, start + 1) \o DecodeTextFrom(s, start + 1)
       ELSE Slice(s, from, start)
              \o DecodeMatch(Slice(s, start, closing + 1), ">",
                             Slice(s, start + 1, closing), "<")
              \o DecodeTextFrom(s, closing + 1)

\* convertSvgToJsx with the spelling denormalized before the protected
\* attributes are restored
convertSvgToJsx_DenormalizesFirst(s, opts) ==
  LET denormalized ==
        IF opts.useCamelCase
        THEN RenameAttributes(ReplaceWordAssign(s, "class", "className"),
                              svgToJsxAttributeMap, 1)
        ELSE s
      restored == restoreEncodedAttributes(denormalized)
      spreads == RestoreSpreadsFrom(restored, 0)
      attributes == DecodeAttributesFrom(spreads, 0)
  IN DecodeTextFrom(attributes, 0)

convertSvgToJsx(s, opts) ==
  LET restored == restoreEncodedAttributes(s)
      denormalized ==
        IF opts.useCamelCase
        THEN RenameAttributes(ReplaceWordAssign(restored, "class", "className"),
                              svgToJsxAttributeMap, 1)
        ELSE restored
      spreads == RestoreSpreadsFrom(denormalized, 0)
      attributes == DecodeAttributesFrom(spreads, 0)
  IN DecodeTextFrom(attributes, 0)

\* prepareForOptimization converting without looking at the classification
prepareForOptimization_AlwaysConverts(s, opts) ==
  [preparedSvg |-> convertJsxToSvg(s, opts), wasJsx |-> TRUE]

prepareForOptimization(s, opts) ==
  IF isJsxSvg(s)
  THEN [preparedSvg |-> convertJsxToSvg(s, opts), wasJsx |-> TRUE]
  ELSE [preparedSvg |-> s, wasJsx |-> FALSE]

\* finalizeAfterOptimization converting whatever the flag says
finalizeAfterOptimization_IgnoresFlag(s, flag, opts) == convertSvgToJsx(s, opts)

finalizeAfterOptimization(s, flag, opts) ==
  IF flag THEN convertSvgToJsx(s, opts) ELSE s

(***************************************************************************)
(* The callers: one optimization cycle                                     *)
(***************************************************************************)
\* The fragments are an <svg> element with up to n attributes drawn from
\* attrs, a text child drawn from texts and, in between, a child element.
RECURSIVE AttrLists(_, _)
AttrLists(attrs, n) ==
  IF n = 0 THEN {""}
  ELSE LET shorter == AttrLists(attrs, n - 1)
       IN shorter \cup {l \o " " \o a : l \in shorter, a \in attrs}

FragmentsOf(attrs, texts, n) ==
  {"<svg" \o l \o ">" \o t \o "</svg>" : l \in AttrLists(attrs, n), t \in texts}

OptionValues == [useCamelCase : BOOLEAN]

PipelineIdle ==
  /\ pc = "start"
  /\ preparedSvg = ""
  /\ wasJsx = FALSE
  /\ optimizedSvg = ""
  /\ finalSvg = ""

CodecIdle == content = "" /\ encoded = "" /\ decoded = Null
MapsIdle == jsxAttr = "" /\ svgAttr = Undefined /\ backAttr = Undefined
ScanIdle ==
  /\ scanner = ""
  /\ fragment = ""
  /\ result = ""
  /\ cursor = 0
  /\ spreadCount = 0
  /\ scanPc = "idle"

\* the two module-level objects as the module creates them
ModuleMaps == [jsxToSvg |-> jsxToSvgAttributeMap, svgToJsx |-> svgToJsxAttributeMap]

CallsIdle ==
  /\ calls = <<>>
  /\ attributeMaps = ModuleMaps

\* a Map without entries
EmptyMap == [k \in {} |-> Null]

\* map.set(key, value)
MapSet(map, key, value) == [k \in DOMAIN map \cup {key} |-> IF k = key THEN value ELSE map[k]]

\* map.delete(key)
MapDelete(map, key) == [k \in DOMAIN map \ {key} |-> map[k]]

\* config.get('enableHover', true), config.get('showGutterPreview', true)
DefaultConfig == [enableHover |-> TRUE, showGutterPreview |-> TRUE]

WorkspaceIdle ==
  /\ documents = EmptyMap
  /\ clock = 0
  /\ isDarkTheme = FALSE
  /\ config = DefaultConfig

HoverIdle ==
  /\ cache = EmptyMap
  /\ hover = Null
  /\ applied = Null

GutterIdle ==
  /\ decorationTypes = EmptyMap
  /\ types = <<>>

EditorIdle == WorkspaceIdle /\ HoverIdle /\ GutterIdle

HostIdle == CallsIdle /\ EditorIdle

\* const { preparedSvg, wasJsx } = prepareForOptimization(svgContent, options)
Prepare ==
  /\ pc = "start"
  /\ LET r == prepareForOptimization(svgContent, options) IN
       /\ preparedSvg' = r.preparedSvg
       /\ wasJsx' = r.wasJsx
  /\ pc' = "prepared"
  /\ UNCHANGED <<svgContent, options, optimizedSvg, finalSvg, codecVars, mapVars, hostVars, scanVars>>

\* the identity optimizer: const optimizedSvg = preparedSvg
Optimize ==
  /\ pc = "prepared"
  /\ optimizedSvg' = preparedSvg
  /\ pc' = "optimized"
  /\ UNCHANGED <<svgContent, options, preparedSvg, wasJsx, finalSvg, codecVars, mapVars, hostVars, scanVars>>

\* finalizeAfterOptimization(optimizedSvg, wasJsx, options)
Finalize ==
  /\ pc = "optimized"
  /\ finalSvg' = finalizeAfterOptimization(optimizedSvg, wasJsx, options)
  /\ pc' = "done"
  /\ UNCHANGED <<svgContent, options, preparedSvg, wasJsx, optimizedSvg, codecVars, mapVars, hostVars, scanVars>>

\* finalizeAfterOptimization called on a fragment that was never prepared,
\* with either value of the flag
FinalizeUnprepared ==
  /\ pc = "start"
  /\ \E flag \in BOOLEAN :
       /\ wasJsx' = flag
       /\ optimizedSvg' = svgContent
       /\ finalSvg' = finalizeAfterOptimization(svgContent, flag, options)
  /\ pc' = "direct"
  /\ UNCHANGED <<svgContent, options, preparedSvg, codecVars, mapVars, hostVars, scanVars>>

Next == Prepare \/ Optimize \/ Finalize \/ FinalizeUnprepared

(***************************************************************************)
(* The placeholder codec on its own                                        *)
(***************************************************************************)
RECURSIVE StringsOver(_, _)
StringsOver(chars, n) ==
  IF n = 0 THEN {""}
  ELSE LET shorter == StringsOver(chars, n - 1)
       IN shorter \cup {x \o c : x \in shorter, c \in chars}

\* characters of the expression texts: a letter, a digit, both quotes, an
\* angle bracket, both braces, the underscore and the space
ExpressionChars == {"a", "7", "\"", "'", "<", "{", "}", "_", " "}
MaxExpressionLen == 3

InitCodec ==
  /\ content \in StringsOver(ExpressionChars, MaxExpressionLen)
  /\ encoded = ""
  /\ decoded = Null
  /\ pc = "start"
  /\ svgContent = ""
  /\ options = [useCamelCase |-> TRUE]
  /\ preparedSvg = "" /\ wasJsx = FALSE /\ optimizedSvg = "" /\ finalSvg = ""
  /\ MapsIdle
  /\ ScanIdle
  /\ HostIdle

Encode ==
  /\ pc = "start"
  /\ encoded' = encodeJsx(content)
  /\ pc' = "encoded"
  /\ UNCHANGED <<content, decoded, svgContent, options, preparedSvg, wasJsx,
                 optimizedSvg, finalSvg, mapVars, hostVars, scanVars>>

Decode ==
  /\ pc = "encoded"
  /\ decoded' = decodeJsx(encoded)
  /\ pc' = "decoded"
  /\ UNCHANGED <<content, encoded, svgContent, options, preparedSvg, wasJsx,
                 optimizedSvg, finalSvg, mapVars, hostVars, scanVars>>

\* decodeJsx applied to a text that is no placeholder
DecodeRaw ==
  /\ pc = "start"
  /\ encoded' = content
  /\ decoded' = decodeJsx(content)
  /\ pc' = "raw"
  /\ UNCHANGED <<content, svgContent, options, preparedSvg, wasJsx,
                 optimizedSvg, finalSvg, mapVars, hostVars, scanVars>>

NextCodec == Encode \/ Decode \/ DecodeRaw

SpecCodec == InitCodec /\ [][NextCodec]_vars

(***************************************************************************)
(* The attribute maps on their own                                         *)
(***************************************************************************)
InitMaps ==
  /\ jsxAttr \in {jsxToSvgAttributeMap[k][1] : k \in 1..Len(jsxToSvgAttributeMap)}
  /\ svgAttr = Undefined
  /\ backAttr = Undefined
  /\ pc = "start"
  /\ svgContent = ""
  /\ options = [useCamelCase |-> TRUE]
  /\ preparedSvg = "" /\ wasJsx = FALSE /\ optimizedSvg = "" /\ finalSvg = ""
  /\ CodecIdle
  /\ ScanIdle
  /\ HostIdle

\* jsxToSvgAttributeMap[jsxAttr]
LookupSvg ==
  /\ pc = "start"
  /\ svgAttr' = Get(jsxToSvgAttributeMap, jsxAttr)
  /\ pc' = "svg"
  /\ UNCHANGED <<jsxAttr, backAttr, svgContent, options, preparedSvg, wasJsx,
                 optimizedSvg, finalSvg, codecVars, scanVars, hostVars>>

\* svgToJsxAttributeMap[svg]
LookupJsx ==
  /\ pc = "svg"
  /\ svgAttr # Undefined
  /\ backAttr' = Get(svgToJsxAttributeMap, svgAttr.str)
  /\ pc' = "back"
  /\ UNCHANGED <<jsxAttr, svgAttr, svgContent, options, preparedSvg, wasJsx,
                 optimizedSvg, finalSvg, codecVars, scanVars, hostVars>>

NextMaps == LookupSvg \/ LookupJsx

SpecMaps == InitMaps /\ [][NextMaps]_vars

(***************************************************************************)
(* One optimization cycle over JSX fragments                               *)
(***************************************************************************)
MaxAttrs == 2

JsxAttrs ==
  { "width=\"24\"",
    "class=\"icon\"",
    "className=\"icon\"",
    "stroke-width=\"2\"",
    "strokeWidth={2}",
    "strokeLinecap='round'",
    "onClick={() => { f(\"}\") }}",
    "{...props}",
    "data-x=\"__JSX_BASE64__YQ==__\"",
    "data-better-svg-temp-__COLON__w=\"1\"",
    "data-spread-0=\"__JSX_BASE64__YQ==__\"" }

JsxTexts ==
  { "",
    "<path d=\"M0 0\" />",
    "<text>{name}</text>",
    "{/* note */}<path />",
    "<text>a {b}</text>",
    "<style>.a{fill:red}</style>" }

\* the inputs of the tests of prepareForOptimization and convertJsxToSvg
TestFragments ==
  { "<svg><path strokeWidth={2} /></svg>",
    "<svg class=\"icon\"><path stroke-width=\"2\" /></svg>",
    "<svg className=\"icon\"><path strokeWidth={2} /></svg>" }

Init ==
  /\ svgContent \in FragmentsOf(JsxAttrs, JsxTexts, MaxAttrs) \cup TestFragments
  /\ options \in OptionValues
  /\ PipelineIdle
  /\ CodecIdle
  /\ MapsIdle
  /\ ScanIdle
  /\ HostIdle

Spec == Init /\ [][Next]_vars

(***************************************************************************)
(* One optimization cycle over fragments with framework directives         *)
(***************************************************************************)
MaxDirectives == 2

\* the text of an attribute written name=<quote>value<quote>
AttrText(d) == d.name \o "=" \o d.quote \o d.value \o d.quote

\* directives written with a quoted value
QuotedDirectives ==
  { [name |-> ":width", quote |-> "\"", value |-> "size"],
    [name |-> "v-bind:width", quote |-> "\"", value |-> "size"],
    [name |-> "@click.stop", quote |-> "\"", value |-> "go"],
    [name |-> ":class", quote |-> "\"", value |-> "c"],
    [name |-> ":w", quote |-> "'", value |-> "a"],
    [name |-> ":t", quote |-> "'", value |-> "a\"b"],
    [name |-> "v-if", quote |-> "\"", value |-> "__BOOLEAN__"] }

\* directives written without a value
BareDirectives == {"client:only", "v-else"}

\* the namespace-prefixed attributes, written with a plain quoted value
NamespacedAttrs ==
  { [name |-> "xmlns:xlink", quote |-> "\"", value |-> "u"],
    [name |-> "xml:space", quote |-> "\"", value |-> "preserve"],
    [name |-> "xlink:href", quote |-> "\"", value |-> "#a"] }

DirectiveAttrs ==
  {AttrText(d) : d \in QuotedDirectives} \cup BareDirectives
    \cup {AttrText(d) : d \in NamespacedAttrs}
    \cup {"on:click={h}", "xlink:href={u}", "width=\"24\""}

DirectiveTexts == {"", "<use xlink:href=\"#a\" />"}

InitDirectives ==
  /\ svgContent \in FragmentsOf(DirectiveAttrs, DirectiveTexts, MaxDirectives)
  /\ options \in OptionValues
  /\ PipelineIdle
  /\ CodecIdle
  /\ MapsIdle
  /\ ScanIdle
  /\ HostIdle

SpecDirectives == InitDirectives /\ [][Next]_vars

(***************************************************************************)
(* One optimization cycle over fragments with spread attributes            *)
(***************************************************************************)
MaxSpreads == 2

\* the texts between the braces of the spreads
SpreadExpressions == {"props", "user", " rest ", "{a: 1}", "f(\"}\")"}

\* what stands in the attribute list: spreads and one plain attribute
SpreadItems ==
  {[spread |-> TRUE, text |-> e] : e \in SpreadExpressions}
    \cup {[spread |-> FALSE, text |-> "width=\"24\""]}

SpreadLists == UNION {[1..n -> SpreadItems] : n \in 0..MaxSpreads}

\* a spread as the fragment holds it
SpreadSource(item, k) == IF item.spread THEN "{..." \o item.text \o "}" ELSE item.text

\* what convertJsxToSvg writes for an item: the k-th spread becomes the
\* protected attribute data-spread-k holding the placeholder of the trimmed text
SpreadPrepared(item, k) ==
  IF item.spread
  THEN TEMP_PREFIX \o "data-spread-" \o NumberToString(k) \o "=\""
         \o encodeJsx(Trim(item.text)) \o "\""
  ELSE item.text

\* what convertSvgToJsx writes back for an item
SpreadRestored(item, k) ==
  IF item.spread THEN "{..." \o Trim(item.text) \o "}" ELSE item.text

WriteItem(item, k, form) ==
  CASE form = "source" -> SpreadSource(item, k)
    [] form = "prepared" -> SpreadPrepared(item, k)
    [] form = "restored" -> SpreadRestored(item, k)

\* the attribute list l from item i on in the given form, k the number of
\* spreads before item i
RECURSIVE WriteItems(_, _, _, _)
WriteItems(l, i, k, form) ==
  IF i > Len(l) THEN ""
  ELSE " " \o WriteItem(l[i], k, form)
         \o WriteItems(l, i + 1, IF l[i].spread THEN k + 1 ELSE k, form)

SpreadFragment(l) == "<svg" \o WriteItems(l, 1, 0, "source") \o "><path /></svg>"

InitSpreads ==
  /\ svgContent \in {SpreadFragment(l) : l \in SpreadLists}
  /\ options \in OptionValues
  /\ PipelineIdle
  /\ CodecIdle
  /\ MapsIdle
  /\ ScanIdle
  /\ HostIdle

SpecSpreads == InitSpreads /\ [][Next]_vars

(***************************************************************************)
(* One optimization cycle over fragments with attribute-value expressions  *)
(***************************************************************************)
MaxExpressions == 2

\* attribute names: a plain one, a key of the spelling map, class
ExpressionNames == {"width", "strokeWidth", "class"}

\* expression texts with balanced braces: an operator, a block with a brace
\* inside a string, an object with a brace inside a string, and a string that
\* ends with an escaped backslash
ExpressionTexts ==
  { "x+1",
    "() => { f(\"}\") }",
    "{a: '}'}",
    "\"a\\\\\"",
    "\"\\\\\" + \"}\"" }

ExpressionAttr(name, expr) == name \o "={" \o expr \o "}"

ExpressionAttrs == {ExpressionAttr(n, e) : n \in ExpressionNames, e \in ExpressionTexts}

InitExpressions ==
  /\ svgContent \in FragmentsOf(ExpressionAttrs, {"<path />"}, MaxExpressions)
  /\ options \in OptionValues
  /\ PipelineIdle
  /\ CodecIdle
  /\ MapsIdle
  /\ ScanIdle
  /\ HostIdle

SpecExpressions == InitExpressions /\ [][Next]_vars

(***************************************************************************)
(* The stages of one optimization cycle, one step each                     *)
(***************************************************************************)
\* comment removal and the three extractors
ExtractExpressions(s) ==
  replaceJsxSpreads(replaceTextInterpolations(replaceJsxExpressions(removeJsxComments(s))))

\* the spelling normalization applied whatever useCamelCase says
NormalizeSpelling_IgnoresFlag(s, opts) ==
  RenameAttributes(ReplaceWordAssign(s, "className", "class"), jsxToSvgAttributeMap, 1)

\* the useCamelCase branch of convertJsxToSvg
NormalizeSpelling(s, opts) ==
  IF opts.useCamelCase
  THEN RenameAttributes(ReplaceWordAssign(s, "className", "class"), jsxToSvgAttributeMap, 1)
  ELSE s

\* the useCamelCase branch of convertSvgToJsx
DenormalizeSpelling(s, opts) ==
  IF opts.useCamelCase
  THEN RenameAttributes(ReplaceWordAssign(s, "class", "className"), svgToJsxAttributeMap, 1)
  ELSE s

\* the spread restore and the two placeholder decoders
DecodePlaceholders(s) == DecodeTextFrom(DecodeAttributesFrom(RestoreSpreadsFrom(s, 0), 0), 0)

\* const wasJsx = isJsxSvg(svgContent)
Classify ==
  /\ pc = "start"
  /\ wasJsx' = isJsxSvg(svgContent)
  /\ preparedSvg' = svgContent
  /\ pc' = IF isJsxSvg(svgContent) THEN "foreign" ELSE "prepared"
  /\ UNCHANGED <<svgContent, options, optimizedSvg, finalSvg, codecVars, mapVars, hostVars, scanVars>>

Extract ==
  /\ pc = "foreign"
  /\ preparedSvg' = ExtractExpressions(preparedSvg)
  /\ pc' = "extracted"
  /\ UNCHANGED <<svgContent, options, wasJsx, optimizedSvg, finalSvg, codecVars, mapVars, hostVars, scanVars>>

Normalize ==
  /\ pc = "extracted"
  /\ preparedSvg' = NormalizeSpelling(preparedSvg, options)
  /\ pc' = "normalized"
  /\ UNCHANGED <<svgContent, options, wasJsx, optimizedSvg, finalSvg, codecVars, mapVars, hostVars, scanVars>>

Protect ==
  /\ pc = "normalized"
  /\ preparedSvg' = protectEncodedAttributes(preparedSvg)
  /\ pc' = "prepared"
  /\ UNCHANGED <<svgContent, options, wasJsx, optimizedSvg, finalSvg, codecVars, mapVars, hostVars, scanVars>>

Unprotect ==
  /\ pc = "optimized"
  /\ wasJsx
  /\ finalSvg' = restoreEncodedAttributes(optimizedSvg)
  /\ pc' = "unprotected"
  /\ UNCHANGED <<svgContent, options, preparedSvg, wasJsx, optimizedSvg, codecVars, mapVars, hostVars, scanVars>>

Denormalize ==
  /\ pc = "unprotected"
  /\ finalSvg' = DenormalizeSpelling(finalSvg, options)
  /\ pc' = "denormalized"
  /\ UNCHANGED <<svgContent, options, preparedSvg, wasJsx, optimizedSvg, codecVars, mapVars, hostVars, scanVars>>

Decode2Jsx ==
  /\ pc = "denormalized"
  /\ finalSvg' = DecodePlaceholders(finalSvg)
  /\ pc' = "done"
  /\ UNCHANGED <<svgContent, options, preparedSvg, wasJsx, optimizedSvg, codecVars, mapVars, hostVars, scanVars>>

\* finalizeAfterOptimization with wasJsx false
ReturnOptimized ==
  /\ pc = "optimized"
  /\ ~wasJsx
  /\ finalSvg' = optimizedSvg
  /\ pc' = "done"
  /\ UNCHANGED <<svgContent, options, preparedSvg, wasJsx, optimizedSvg, codecVars, mapVars, hostVars, scanVars>>

NextStages ==
  \/ Classify \/ Extract \/ Normalize \/ Protect
  \/ Optimize
  \/ Unprotect \/ Denormalize \/ Decode2Jsx \/ ReturnOptimized

MaxStageAttrs == 2

StageAttrs ==
  { "stroke-width=\"2\"",
    "className=\"icon\"",
    "strokeWidth={2}",
    ":strokeWidth=\"w\"",
    "xlink:href={u}",
    "data-strokeWidth=\"test\"",
    "{...props}" }

StageTexts == {"<path d=\"M0 0\" />", "<text>{name}</text>"}

InitStages ==
  /\ svgContent \in FragmentsOf(StageAttrs, StageTexts, MaxStageAttrs)
  /\ options \in OptionValues
  /\ PipelineIdle
  /\ CodecIdle
  /\ MapsIdle
  /\ ScanIdle
  /\ HostIdle

SpecStages == InitStages /\ [][NextStages]_vars

(***************************************************************************)
(* Detection on plain markup: attribute values, element text, style blocks *)
(***************************************************************************)
MaxDetectAttrs == 2

\* standard attributes with quoted values and no braces
DetectAttrs ==
  { "viewBox=\"0 0 24 24\"",
    "fill=\"red\"",
    "aria-label=\"mail @home\"" }

\* children without braces: path data and element text
DetectPlainTexts ==
  { "<path stroke-linecap=\"round\" />",
    "<path d=\"M0 0h5\" />",
    "<path d=\"M0 0 v-5\" />",
    "<text>a :b</text>" }

\* children whose braces all lie inside a style block
DetectStyleTexts ==
  { "<style>.a{fill:red}</style>",
    "<style>.a{fill:red} .b{fill:blue}</style><path d=\"M0 0h5\" />",
    "<style> @media print{.a{fill:red}}</style>",
    "<style>.a{/* c */}</style>" }

\* children with a brace pair in element text outside any style block
DetectBraceTexts ==
  { "<text>{ x }</text>",
    "<style>.a{fill:red}</style><text>{x}</text>" }

InitDetect ==
  /\ svgContent \in FragmentsOf(DetectAttrs,
                                DetectPlainTexts \cup DetectStyleTexts \cup DetectBraceTexts,
                                MaxDetectAttrs)
  /\ options \in OptionValues
  /\ PipelineIdle
  /\ CodecIdle
  /\ MapsIdle
  /\ ScanIdle
  /\ HostIdle

SpecDetect == InitDetect /\ [][Next]_vars

(***************************************************************************)
(* The outer loop of the three extractors, one iteration per step          *)
(***************************************************************************)
Scanners == {"replaceJsxExpressions", "replaceTextInterpolations", "replaceJsxSpreads"}

\* the text content.indexOf looks for
Delimiter(f) ==
  CASE f = "replaceJsxExpressions" -> "={"
    [] f = "replaceTextInterpolations" -> "{"
    [] f = "replaceJsxSpreads" -> "{..."

\* const startIdx = content.indexOf(delimiter, currentIndex)
DelimiterAt == IndexOf(fragment, Delimiter(scanner), cursor)

\* the inner loop, started right after the delimiter
DelimiterMatch ==
  MatchBrace(fragment, DelimiterAt + Len(Delimiter(scanner)), 1, FALSE, "")

\* replaceTextInterpolations: the brace is preceded by '=', or is not in
\* element text, or starts a comment
BraceSkipped ==
  /\ scanner = "replaceTextInterpolations"
  /\ LET lastOpen == LastIndexOf(fragment, ">", DelimiterAt)
         lastClose == LastIndexOf(fragment, "<", DelimiterAt)
         isInsideTag == lastOpen # -1 /\ lastOpen > lastClose
     IN \/ DelimiterAt > 0 /\ At(fragment, DelimiterAt - 1) = "="
        \/ ~isInsideTag
        \/ StartsWithAt(fragment, "/*", DelimiterAt + 1)

\* what the found branch appends for the expression
Replacement(f, expression, k) ==
  CASE f = "replaceJsxExpressions" -> "=\"" \o encodeJsx(expression) \o "\""
    [] f = "replaceTextInterpolations" -> encodeJsx(expression)
    [] f = "replaceJsxSpreads" ->
         "data-spread-" \o NumberToString(k) \o "=\"" \o encodeJsx(Trim(expression)) \o "\""

\* let result = ''; let currentIndex = 0; let spreadIndex = 0
ScanCall ==
  /\ scanPc = "idle"
  /\ \E f \in Scanners : scanner' = f
  /\ result' = ""
  /\ cursor' = 0
  /\ spreadCount' = 0
  /\ scanPc' = "loop"
  /\ UNCHANGED <<fragment, pipelineVars, codecVars, mapVars, hostVars>>

\* while (currentIndex < content.length) is false: return result
ScanReturn ==
  /\ scanPc = "loop"
  /\ cursor >= Len(fragment)
  /\ scanPc' = "returned"
  /\ UNCHANGED <<scanner, fragment, result, cursor, spreadCount, pipelineVars, codecVars,
                 mapVars, hostVars>>

\* if (startIdx === -1) { result += content.slice(currentIndex); break }
ScanBreak ==
  /\ scanPc = "loop"
  /\ cursor < Len(fragment)
  /\ DelimiterAt = -1
  /\ result' = result \o SliceFrom(fragment, cursor)
  /\ scanPc' = "returned"
  /\ UNCHANGED <<scanner, fragment, cursor, spreadCount, pipelineVars, codecVars, mapVars, hostVars>>

\* replaceTextInterpolations: the two branches that end in continue
ScanSkip ==
  /\ scanPc = "loop"
  /\ cursor < Len(fragment)
  /\ DelimiterAt # -1
  /\ BraceSkipped
  /\ result' = result \o Slice(fragment, cursor, DelimiterAt + 1)
  /\ cursor' = DelimiterAt + 1
  /\ UNCHANGED <<scanner, fragment, spreadCount, scanPc, pipelineVars, codecVars, mapVars, hostVars>>

\* if (found) { ...; currentIndex = j }
ScanFound ==
  /\ scanPc = "loop"
  /\ cursor < Len(fragment)
  /\ DelimiterAt # -1
  /\ ~BraceSkipped
  /\ \E startIdx \in {DelimiterAt} :
       \E m \in {MatchBrace(fragment, startIdx + Len(Delimiter(scanner)), 1, FALSE, "")} :
         /\ m.found
         /\ \E expression \in {Slice(fragment, startIdx + Len(Delimiter(scanner)), m.j - 1)} :
              result' = result \o Slice(fragment, cursor, startIdx)
                          \o Replacement(scanner, expression, spreadCount)
         /\ cursor' = m.j
  /\ spreadCount' = IF scanner = "replaceJsxSpreads" THEN spreadCount + 1 ELSE spreadCount
  /\ UNCHANGED <<scanner, fragment, scanPc, pipelineVars, codecVars, mapVars, hostVars>>

\* the not found branch, which ends the scan and returns the rest as it is
ScanNotFound_StopsScanning ==
  /\ scanPc = "loop"
  /\ cursor < Len(fragment)
  /\ DelimiterAt # -1
  /\ ~BraceSkipped
  /\ ~DelimiterMatch.found
  /\ result' = result \o SliceFrom(fragment, cursor)
  /\ scanPc' = "returned"
  /\ UNCHANGED <<scanner, fragment, cursor, spreadCount, pipelineVars, codecVars, mapVars, hostVars>>

\* the not found branch, which starts the next search at the delimiter again
ScanNotFound_SameIndex ==
  /\ scanPc = "loop"
  /\ cursor < Len(fragment)
  /\ DelimiterAt # -1
  /\ ~BraceSkipped
  /\ ~DelimiterMatch.found
  /\ result' = result \o Slice(fragment, cursor, DelimiterAt)
  /\ cursor' = DelimiterAt
  /\ UNCHANGED <<scanner, fragment, spreadCount, scanPc, pipelineVars, codecVars, mapVars, hostVars>>

\* else { result += delimiter; currentIndex = startIdx + delimiter.length }
ScanNotFound ==
  /\ scanPc = "loop"
  /\ cursor < Len(fragment)
  /\ DelimiterAt # -1
  /\ ~BraceSkipped
  /\ ~DelimiterMatch.found
  /\ result' = result \o Slice(fragment, cursor, DelimiterAt) \o Delimiter(scanner)
  /\ cursor' = DelimiterAt + Len(Delimiter(scanner))
  /\ UNCHANGED <<scanner, fragment, spreadCount, scanPc, pipelineVars, codecVars, mapVars, hostVars>>

NextScan == ScanCall \/ ScanReturn \/ ScanBreak \/ ScanSkip \/ ScanFound \/ ScanNotFound

MaxScanPieces == 2

\* what stands between "<svg" and the end of the opening tag: attributes,
\* spreads, and delimiters whose closing brace is missing ("open")
ScanPieces ==
  { [kind |-> "plain", src |-> " width=\"24\"", expr |-> ""],
    [kind |-> "expression", src |-> " a={x}", expr |-> "x"],
    [kind |-> "expression", src |-> " b={{a: '}'}}", expr |-> "{a: '}'}"],
    [kind |-> "spread", src |-> " {...props}", expr |-> "props"],
    [kind |-> "open", src |-> " u={", expr |-> ""],
    [kind |-> "open", src |-> " {...q", expr |-> ""] }

\* the rest of the fragment, with the result of replaceTextInterpolations on
\* it: nothing (the fragment stops inside the opening tag), an element, a
\* text interpolation, and a brace in element text that is never closed
\* before a well-formed interpolation
ScanTails ==
  { [src |-> "", out |-> ""],
    [src |-> "><path /></svg>", out |-> "><path /></svg>"],
    [src |-> "><text>{t}</text></svg>",
     out |-> "><text>" \o encodeJsx("t") \o "</text></svg>"],
    [src |-> "><text>{ z</text><text>{f(\"}\")}</text></svg>",
     out |-> "><text>{ z</text><text>" \o encodeJsx("f(\"}\")") \o "</text></svg>"] }

ScanPieceLists == UNION {[1..k -> ScanPieces] : k \in 0..MaxScanPieces}

\* what extractor f makes of piece p when k spreads stand before it; any
\* other f writes the piece as it is
PieceOutput(p, k, f) ==
  IF f = "replaceJsxExpressions" /\ p.kind = "expression"
  THEN Slice(p.src, 0, IndexOf(p.src, "={", 0)) \o "=\"" \o encodeJsx(p.expr) \o "\""
  ELSE IF f = "replaceJsxSpreads" /\ p.kind = "spread"
  THEN " data-spread-" \o NumberToString(k) \o "=\"" \o encodeJsx(p.expr) \o "\""
  ELSE p.src

RECURSIVE WritePieces(_, _, _, _)
WritePieces(l, i, k, f) ==
  IF i > Len(l) THEN ""
  ELSE PieceOutput(l[i], k, f)
         \o WritePieces(l, i + 1, IF l[i].kind = "spread" THEN k + 1 ELSE k, f)

\* the fragments of the universe, each with the result expected of each
\* extractor: the well-formed expressions replaced, everything else as it is
ScanCases ==
  { [content |-> "<svg" \o WritePieces(l, 1, 0, "") \o t.src,
     expected |-> [f \in Scanners |->
                     "<svg" \o WritePieces(l, 1, 0, f)
                       \o (IF f = "replaceTextInterpolations" THEN t.out ELSE t.src)]] :
      l \in ScanPieceLists, t \in ScanTails }

InitScan ==
  /\ fragment \in {c.content : c \in ScanCases}
  /\ scanner = ""
  /\ result = ""
  /\ cursor = 0
  /\ spreadCount = 0
  /\ scanPc = "idle"
  /\ svgContent = ""
  /\ options = [useCamelCase |-> TRUE]
  /\ PipelineIdle
  /\ CodecIdle
  /\ MapsIdle
  /\ HostIdle

SpecScan == InitScan /\ [][NextScan]_vars

\* a call runs to its end: the loop is not interrupted
SpecScanFair == SpecScan /\ WF_vars(NextScan)

(***************************************************************************)
(* Braces in element text, in style blocks and in the attribute list       *)
(***************************************************************************)
MaxTextAttrs == 2

\* attributes of the opening tag: plain ones, one whose value holds '>', a
\* spread and a shorthand attribute
TextAttrs ==
  { "width=\"24\"",
    "className=\"icon\"",
    "title=\"a>b\"",
    "{...props}",
    "{w}" }

\* the braces of TextAttrs that stand in the attribute list
TagBraces == {"{...props}", "{w}"}

\* children with interpolations in element text
InterpolatedTexts ==
  { "<text>{name}</text>",
    "<text>a {b}</text>",
    "<text>{a}{b}</text>",
    "<text>{a} and {b}</text>" }

StyleBlock == "<style>.a{fill:red}</style>"

TextChildren == InterpolatedTexts \cup {StyleBlock, StyleBlock \o "<text>{name}</text>"}

InitText ==
  /\ svgContent \in FragmentsOf(TextAttrs, TextChildren, MaxTextAttrs)
  /\ options \in OptionValues
  /\ PipelineIdle
  /\ CodecIdle
  /\ MapsIdle
  /\ ScanIdle
  /\ HostIdle

SpecText == InitText /\ [][Next]_vars

(***************************************************************************)
(* Placeholder frames that the optimizer hands back                        *)
(***************************************************************************)
MaxFrameAttrs == 2

\* prefix and suffix around a content that is no base64 text: characters
\* outside the alphabet, and a single digit
InvalidFrames == {BASE64_PREFIX \o "!!" \o BASE64_SUFFIX, BASE64_PREFIX \o "x" \o BASE64_SUFFIX}

\* the placeholder of the expression x
ValidFrame == BASE64_PREFIX \o "eA==" \o BASE64_SUFFIX

FrameAttrs ==
  {"a=\"" \o v \o "\"" : v \in InvalidFrames} \cup {"b=\"" \o ValidFrame \o "\"", "width=\"24\""}

FrameTexts ==
  {"<text>" \o v \o "</text>" : v \in InvalidFrames \cup {ValidFrame}} \cup {"<path />"}

InitFrames ==
  /\ svgContent \in FragmentsOf(FrameAttrs, FrameTexts, MaxFrameAttrs)
  /\ options \in OptionValues
  /\ PipelineIdle
  /\ CodecIdle
  /\ MapsIdle
  /\ ScanIdle
  /\ HostIdle

SpecFrames == InitFrames /\ [][Next]_vars

(***************************************************************************)
(* The names of protected attributes                                       *)
(***************************************************************************)
MaxNameLen == 3

\* characters of attribute names: a letter, the hyphen and the three
\* characters the sanitization rewrites
NameChars == {"a", "-", ":", "@", "."}

ProtectedNames == StringsOver(NameChars, MaxNameLen) \ {""}

\* an attribute with an expression value, which protectEncodedAttributes
\* protects whatever its name is
NamedFragment(n) == "<svg " \o n \o "={x}><path /></svg>"

InitNames ==
  /\ svgContent \in {NamedFragment(n) : n \in ProtectedNames}
  /\ options \in OptionValues
  /\ PipelineIdle
  /\ CodecIdle
  /\ MapsIdle
  /\ ScanIdle
  /\ HostIdle

SpecNames == InitNames /\ [][Next]_vars

(***************************************************************************)
(* Several callers: prepareForOptimization and finalizeAfterOptimization   *)
(* are synchronous, a caller optimizes between the two, and the calls of   *)
(* different callers interleave at these points                            *)
(***************************************************************************)
MaxCalls == 2

CallIds == 1..MaxCalls

\* the spread counter carried over from the calls that ran before
FirstSpreadIndex_Carried(cs, c) ==
  Cardinality({d \in DOMAIN cs : d # c /\ cs[d].pc # "start" /\ Includes(cs[d].svgContent, "{...")})

\* let spreadIndex = 0, at the start of each replaceJsxSpreads call
FirstSpreadIndex(cs, c) == 0

\* convertJsxToSvg as a call runs it: the spread counter starts at first
\* and the rename reads the module's map object
CallConvertJsxToSvg(s, opts, first, maps) ==
  LET noComments == removeJsxComments(s)
      extracted ==
        ReplaceJsxSpreadsFrom(replaceTextInterpolations(replaceJsxExpressions(noComments)),
                              0, first)
      normalized ==
        IF opts.useCamelCase
        THEN RenameAttributes(ReplaceWordAssign(extracted, "className", "class"),
                              maps.jsxToSvg, 1)
        ELSE extracted
  IN protectEncodedAttributes(normalized)

\* convertSvgToJsx as a call runs it
CallConvertSvgToJsx(s, opts, maps) ==
  LET restored == restoreEncodedAttributes(s)
      denormalized ==
        IF opts.useCamelCase
        THEN RenameAttributes(ReplaceWordAssign(restored, "class", "className"),
                              maps.svgToJsx, 1)
        ELSE restored
  IN DecodePlaceholders(denormalized)

\* prepareForOptimization(svgContent, options) of caller c
CallPrepare(c) ==
  /\ calls[c].pc = "start"
  /\ LET call == calls[c]
         first == FirstSpreadIndex(calls, c)
         jsx == isJsxSvg(call.svgContent)
         prepared ==
           IF jsx THEN CallConvertJsxToSvg(call.svgContent, call.options, first, attributeMaps)
           ELSE call.svgContent
     IN calls' = [calls EXCEPT ![c] =
          [call EXCEPT !.pc = "prepared", !.spreadIndex = first,
                       !.wasJsx = jsx, !.preparedSvg = prepared]]
  /\ UNCHANGED <<attributeMaps, editorVars, pipelineVars, codecVars, mapVars, scanVars>>

\* the optimizer of caller c, the identity
CallOptimize(c) ==
  /\ calls[c].pc = "prepared"
  /\ calls' = [calls EXCEPT ![c] =
       [calls[c] EXCEPT !.pc = "optimized", !.optimizedSvg = calls[c].preparedSvg]]
  /\ UNCHANGED <<attributeMaps, editorVars, pipelineVars, codecVars, mapVars, scanVars>>

\* finalizeAfterOptimization(optimizedSvg, wasJsx, options) of caller c
CallFinalize(c) ==
  /\ calls[c].pc = "optimized"
  /\ LET call == calls[c]
         final ==
           IF call.wasJsx
           THEN CallConvertSvgToJsx(call.optimizedSvg, call.options, attributeMaps)
           ELSE call.optimizedSvg
     IN calls' = [calls EXCEPT ![c] = [call EXCEPT !.pc = "done", !.finalSvg = final]]
  /\ UNCHANGED <<attributeMaps, editorVars, pipelineVars, codecVars, mapVars, scanVars>>

NextCalls == \E c \in CallIds : CallPrepare(c) \/ CallOptimize(c) \/ CallFinalize(c)

\* the fragments of the callers
CallFragments ==
  { "<svg {...props}><path /></svg>",
    "<svg {...a} strokeWidth={2} {...b}></svg>",
    "<svg className=\"icon\"><text>{name}</text></svg>",
    "<svg stroke-width=\"2\"><path /></svg>" }

NewCall(s, opts) ==
  [svgContent |-> s, options |-> opts, pc |-> "start", spreadIndex |-> 0,
   preparedSvg |-> "", wasJsx |-> FALSE, optimizedSvg |-> "", finalSvg |-> ""]

\* the callers hold different fragments
InitCalls ==
  /\ calls \in {cs \in [CallIds -> {NewCall(s, o) : s \in CallFragments, o \in OptionValues}] :
                  \A c, d \in CallIds : c # d => cs[c].svgContent # cs[d].svgContent}
  /\ attributeMaps = ModuleMaps
  /\ EditorIdle
  /\ svgContent = ""
  /\ options = [useCamelCase |-> TRUE]
  /\ PipelineIdle
  /\ CodecIdle
  /\ MapsIdle
  /\ ScanIdle

SpecCalls == InitCalls /\ [][NextCalls]_vars

(***************************************************************************)
(* The preview image of svgGutterPreview.ts                                *)
(***************************************************************************)
\* F applied to the value of x
Call(F(_), x) == CHOOSE y \in {F(v) : v \in {x}} : TRUE

\* the matches of /<svg[\s\S]*?>[\s\S]*?<\/svg>/g in text, each with its
\* index and its text (match.index, match[0])
SvgMatches(text) ==
  LET from[p \in 0..Len(text)] ==
        LET i == IndexOf(text, "<svg", p)
            gt == IF i = -1 THEN -1 ELSE IndexOf(text, ">", i + 4)
            close == IF gt = -1 THEN -1 ELSE IndexOf(text, "</svg>", gt + 1)
        IN IF close = -1 THEN <<>>
           ELSE <<[index |-> i, text |-> Slice(text, i, close + 6)]>> \o from[close + 6]
  IN from[0]

\* String.prototype.replace(x, y) with a string or a one-match pattern x
ReplaceFirst(s, x, y) ==
  LET i == IndexOf(s, x, 0)
  IN IF i = -1 THEN s ELSE Slice(s, 0, i) \o y \o SliceFrom(s, i + Len(x))

\* if (!svgContent.includes('xmlns=')) svgContent = svgContent.replace(/<svg/, ...)
AddXmlns(s) ==
  IF Includes(s, "xmlns=") THEN s
  ELSE ReplaceFirst(s, "<svg", "<svg xmlns=\"http://www.w3.org/2000/svg\"")

\* svgContent.replace(/currentColor/g, contrastColor)
ResolveCurrentColor(s, dark) ==
  ReplaceAll(s, "currentColor", IF dark THEN "#ffffff" ELSE "#000000")

\* svgContent.match(/<svg[^>]*>/i): the tag as Str, Null without a match
\* (the fragments of the model spell svg in lower case)
SvgOpenTag(s) ==
  LET i == IndexOf(s, "<svg", 0)
      gt == IF i = -1 THEN -1 ELSE IndexOf(s, ">", i + 4)
  IN IF gt = -1 THEN Null ELSE Str(Slice(s, i, gt + 1))

QuoteChars == {"\"", "'"}
NonQuoteChars == (CharsOf(AsciiTable) \cup SpaceChars) \ QuoteChars

\* NAME\s*=\s*["'] at position k of s: the position after the opening
\* quote, -1 without a match
ValueStart(s, name, k) ==
  IF ~StartsWithAt(s, name, k) THEN -1
  ELSE LET eq == SkipSpaces(s, k + Len(name))
           q == SkipSpaces(s, eq + 1)
       IN IF At(s, eq) = "=" /\ At(s, q) \in QuoteChars THEN q + 1 ELSE -1

\* the first match of /(\b)NAME\s*=\s*["']([^"']+)["']/ in s:
\* [index, end, value], Null without a match
QuotedAttribute(s, name, boundary) ==
  LET hits == {k \in 0..(Len(s) - 1) :
                 /\ ValueStart(s, name, k) # -1
                 /\ boundary => WordBoundary(s, k)
                 /\ LET v == ValueStart(s, name, k)
                        e == RunEnd(s, v, NonQuoteChars)
                    IN e > v /\ At(s, e) \in QuoteChars}
  IN IF hits = {} THEN Null
     ELSE LET k == First(hits)
              v == ValueStart(s, name, k)
              e == RunEnd(s, v, NonQuoteChars)
          IN [index |-> k, end |-> e + 1, value |-> Slice(s, v, e)]

\* /\bNAME\s*=/.test(s)
HasAssignment(s, name) ==
  \E k \in 0..(Len(s) - 1) :
    /\ StartsWithAt(s, name, k)
    /\ WordBoundary(s, k)
    /\ At(s, SkipSpaces(s, k + Len(name))) = "="

\* const shapeElements = [...]
ShapeElements == <<"path", "line", "polyline", "polygon", "circle", "ellipse", "rect">>

\* the first match of <(path|line|...)([^>]*?)(\/?>) in s from position p:
\* [index, tagName, attrs, ending, end], Null without a match (tag names
\* in lower case)
ShapeMatch(s, p) ==
  LET starts == {k \in p..(Len(s) - 1) :
                   \E n \in 1..Len(ShapeElements) : StartsWithAt(s, "<" \o ShapeElements[n], k)}
  IN IF starts = {} THEN Null
     ELSE LET k == First(starts)
              tagName == ShapeElements[CHOOSE n \in 1..Len(ShapeElements) :
                                         StartsWithAt(s, "<" \o ShapeElements[n], k)]
              a == k + 1 + Len(tagName)
              gt == IndexOf(s, ">", a)
              e == IF gt > a /\ At(s, gt - 1) = "/" THEN gt - 1 ELSE gt
          IN IF gt = -1 THEN Null
             ELSE [index |-> k, tagName |-> tagName, attrs |-> Slice(s, a, e),
                   ending |-> Slice(s, e, gt + 1), end |-> gt + 1]

\* the replacement of one match: a shape without a stroke gets the parent's
WithStroke(m, stroke) ==
  IF m.attrs # "" /\ HasAssignment(m.attrs, "stroke")
  THEN "<" \o m.tagName \o m.attrs \o m.ending
  ELSE "<" \o m.tagName \o m.attrs \o " stroke=\"" \o stroke \o "\"" \o m.ending

\* svgContent.replace(shapeRegex, ...)
PropagateStroke(s, stroke) ==
  LET from[p \in 0..Len(s)] ==
        Call(LAMBDA m : IF m = Null THEN SliceFrom(s, p)
                        ELSE Slice(s, p, m.index) \o WithStroke(m, stroke) \o from[m.end],
             ShapeMatch(s, p))
  IN from[0]

propagateStrokeAndFill(s) ==
  Call(LAMBDA tag :
         IF tag = Null THEN s
         ELSE Call(LAMBDA strokeMatch :
                     IF strokeMatch = Null THEN s ELSE PropagateStroke(s, strokeMatch.value),
                   QuotedAttribute(tag.str, "stroke", TRUE)),
       SvgOpenTag(s))

\* value.split(/\s+/)
RECURSIVE SplitSpaces(_)
SplitSpaces(v) ==
  LET spaces == {i \in 0..(Len(v) - 1) : IsSpace(At(v, i))}
  IN IF spaces = {} THEN <<v>>
     ELSE Call(LAMBDA i : <<Slice(v, 0, i)>>
                            \o Call(SplitSpaces, SliceFrom(v, SkipSpaces(v, i))),
               First(spaces))

\* the value of a run of digits
DigitsValue(d) ==
  LET value[n \in 0..Len(d)] ==
        IF n = 0 THEN 0 ELSE 10 * value[n - 1] + IndexOf("0123456789", At(d, n - 1), 0)
  IN value[Len(d)]

RECURSIVE PowerOfTen(_)
PowerOfTen(n) == IF n = 0 THEN 1 ELSE 10 * PowerOfTen(n - 1)

NaN == [nan |-> TRUE]

\* parseFloat for a text without leading white space: an optional sign and
\* the longest decimal numeral the text starts with, as the fraction
\* num / den; NaN without a numeral (exponents are not modelled)
ParseFloat(t) ==
  LET sign == IF At(t, 0) \in {"-", "+"} THEN 1 ELSE 0
      whole == RunEnd(t, sign, DigitChars)
      frac == IF At(t, whole) = "." THEN RunEnd(t, whole + 1, DigitChars) ELSE whole
      digits == Slice(t, sign, whole) \o (IF frac > whole THEN Slice(t, whole + 1, frac) ELSE "")
      places == IF frac > whole THEN frac - whole - 1 ELSE 0
  IN IF digits = "" THEN NaN
     ELSE [num |-> (IF At(t, 0) = "-" THEN -1 ELSE 1) * DigitsValue(digits),
           den |-> PowerOfTen(places)]

\* Math.round of the fraction n / d with d > 0
Round(n, d) == (2 * n + d) \div (2 * d)

\* the template literal of a number
NumberText(n) == IF n < 0 THEN "-" \o NumberToString(-n) ELSE NumberToString(n)

\* Math.max of two fractions
MaxFraction(x, y) == IF x.num * y.den >= y.num * x.den THEN x ELSE y

\* the text of Math.round(x * (minSize / Math.max(x, y)))
ScaledText(x, y, minSize) ==
  IF x = NaN \/ y = NaN THEN "NaN"
  ELSE LET m == MaxFraction(x, y)
       IN IF m.num = 0
          THEN (IF x.num = 0 THEN "NaN" ELSE "-Infinity")
          ELSE LET n == x.num * minSize * m.den
                   d == x.den * m.num
               IN NumberText(IF d > 0 THEN Round(n, d) ELSE Round(-n, -d))

\* the first match of /\bNAME\s*=\s*["'](\d+(?:\.\d+)?)(?:px)?["']/ in s:
\* [index, end, number], Null without a match
NumericAttribute(s, name) ==
  LET NumberEnd(v) ==
        LET whole == RunEnd(s, v, DigitChars)
            frac == IF At(s, whole) = "." THEN RunEnd(s, whole + 1, DigitChars) ELSE whole
        IN IF frac > whole + 1 THEN frac ELSE whole
      UnitEnd(e) == IF StartsWithAt(s, "px", e) THEN e + 2 ELSE e
      hits == {k \in 0..(Len(s) - 1) :
                 /\ ValueStart(s, name, k) # -1
                 /\ WordBoundary(s, k)
                 /\ LET v == ValueStart(s, name, k)
                    IN /\ RunEnd(s, v, DigitChars) > v
                       /\ At(s, UnitEnd(NumberEnd(v))) \in QuoteChars}
  IN IF hits = {} THEN Null
     ELSE LET k == First(hits)
              v == ValueStart(s, name, k)
          IN [index |-> k, end |-> UnitEnd(NumberEnd(v)) + 1, number |-> Slice(s, v, NumberEnd(v))]

\* svgContent.replace(/\bNAME\s*=\s*["']\d+(?:\.\d+)?(?:px)?["']/, text)
ReplaceNumericAttribute(s, name, text) ==
  Call(LAMBDA m : IF m = Null THEN s ELSE Slice(s, 0, m.index) \o text \o SliceFrom(s, m.end),
       NumericAttribute(s, name))

\* svgContent.replace('<svg', ...) with the default or the scaled size
WithSize(s, width, height) ==
  ReplaceFirst(s, "<svg", "<svg width=\"" \o width \o "\" height=\"" \o height \o "\"")

\* the branch of ensureMinimumSize for a tag without width and height
SizeFromViewBox(s, tag, minSize) ==
  Call(LAMBDA viewBoxMatch :
         Call(LAMBDA viewBoxParts :
                IF Len(viewBoxParts) >= 4
                THEN LET vbWidth == ParseFloat(viewBoxParts[3])
                         vbHeight == ParseFloat(viewBoxParts[4])
                     IN WithSize(s, ScaledText(vbWidth, vbHeight, minSize),
                                    ScaledText(vbHeight, vbWidth, minSize))
                ELSE WithSize(s, NumberText(minSize), NumberText(minSize)),
              IF viewBoxMatch = Null THEN <<>> ELSE SplitSpaces(viewBoxMatch.value)),
       QuotedAttribute(tag, "viewBox", FALSE))

\* the branch of ensureMinimumSize for a tag with a width or a height
ScaledUp(s, tag, minSize) ==
  Call(LAMBDA widthMatch :
         Call(LAMBDA heightMatch :
                IF widthMatch # Null /\ heightMatch # Null
                THEN LET width == ParseFloat(widthMatch.number)
                         height == ParseFloat(heightMatch.number)
                     IN IF /\ width.num < minSize * width.den
                           /\ height.num < minSize * height.den
                        THEN ReplaceNumericAttribute(
                               ReplaceNumericAttribute(s, "width",
                                 "width=\"" \o ScaledText(width, height, minSize) \o "\""),
                               "height",
                               "height=\"" \o ScaledText(height, width, minSize) \o "\"")
                        ELSE s
                ELSE s,
              NumericAttribute(tag, "height")),
       NumericAttribute(tag, "width"))

\* SvgHoverProvider.ensureMinimumSize
ensureMinimumSize(s, minSize) ==
  Call(LAMBDA tag :
         IF tag = Null THEN s
         ELSE IF /\ QuotedAttribute(tag.str, "width", TRUE) = Null
                 /\ QuotedAttribute(tag.str, "height", TRUE) = Null
              THEN SizeFromViewBox(s, tag.str, minSize)
              ELSE ScaledUp(s, tag.str, minSize),
       SvgOpenTag(s))

\* SvgGutterPreview.ensureMinimumSize, which has no branch for small sizes
GutterEnsureMinimumSize(s, minSize) ==
  Call(LAMBDA tag :
         IF tag = Null THEN s
         ELSE IF /\ QuotedAttribute(tag.str, "width", TRUE) = Null
                 /\ QuotedAttribute(tag.str, "height", TRUE) = Null
              THEN SizeFromViewBox(s, tag.str, minSize)
              ELSE s,
       SvgOpenTag(s))

\* the steps of both previews from the matched text up to the stroke
PreviewSvg(originalSvg, dark) ==
  Call(propagateStrokeAndFill,
       Call(LAMBDA x : ResolveCurrentColor(x, dark),
            Call(AddXmlns, convertJsxToSvg(originalSvg, [useCamelCase |-> TRUE]))))

\* `data:image/svg+xml;base64,${Buffer.from(svgContent).toString('base64')}`
DataUri(s) == "data:image/svg+xml;base64," \o Call(Base64Encode, Utf8Bytes(s))

\* the steps of provideHover from the matched text to the data URI
HoverDataUri(originalSvg, dark) ==
  Call(DataUri, Call(LAMBDA x : ensureMinimumSize(x, 128), PreviewSvg(originalSvg, dark)))

\* the steps of updateDecorations from the matched text to the data URI
GutterDataUri(originalSvg, dark) ==
  Call(DataUri, Call(LAMBDA x : GutterEnsureMinimumSize(x, 16), PreviewSvg(originalSvg, dark)))

(***************************************************************************)
(* SvgHoverProvider: provideHover between document edits.  A position is   *)
(* the offset it stands for (positionAt and offsetAt are inverse on the    *)
(* offsets of a document).                                                 *)
(***************************************************************************)
\* private cacheMaxAge = 5000
cacheMaxAge == 5000

\* buildHoverCommandArgs(document, range)
buildHoverCommandArgs(uri, range) ==
  [uri |-> uri, start |-> range.start, length |-> range.end - range.start]

\* createHover(dataUri, sizeBytes, range, commandArgs): the image, the size
\* and the command link of the markdown, and the range of the hover.
\* originalSvg and fromCache are not part of the Hover: they record the
\* text provideHover matched and the branch that built the Hover
createHover(dataUri, sizeBytes, range, commandArgs, originalSvg, fromCache) ==
  [dataUri |-> dataUri, sizeBytes |-> sizeBytes, range |-> range,
   commandArgs |-> commandArgs, originalSvg |-> originalSvg, fromCache |-> fromCache]

\* the key of a cache entry
CacheKey(uri, index, length) ==
  uri \o ":" \o NumberToString(index) \o ":" \o NumberToString(length)

\* whether a cache entry may be reused at time now
CacheHit(cached, now) == now - cached.timestamp < cacheMaxAge

\* the first match whose range contains the position, Null without one
MatchAt(text, position) ==
  Call(LAMBDA matches :
         LET over == {n \in 1..Len(matches) :
                        /\ matches[n].index <= position
                        /\ position <= matches[n].index + Len(matches[n].text)}
         IN IF over = {} THEN Null ELSE matches[First(over)],
       SvgMatches(text))

\* provideHover(document, position)
ProvideHover(uri, position) ==
  /\ uri \in DOMAIN documents
  /\ position \in 0..Len(documents[uri])
  /\ \E match \in {MatchAt(documents[uri], position)} :
       IF ~config.enableHover \/ match = Null
       THEN hover' = Null /\ UNCHANGED cache
       ELSE LET range == [start |-> match.index, end |-> match.index + Len(match.text)]
                originalSvg == match.text
                sizeBytes == Len(originalSvg)
                cacheKey == CacheKey(uri, match.index, Len(originalSvg))
                now == clock
                commandArgs == buildHoverCommandArgs(uri, range)
            IN IF cacheKey \in DOMAIN cache /\ CacheHit(cache[cacheKey], now)
               THEN /\ hover' = createHover(cache[cacheKey].dataUri, cache[cacheKey].sizeBytes,
                                            range, commandArgs, originalSvg, TRUE)
                    /\ UNCHANGED cache
               ELSE \E dataUri \in {HoverDataUri(originalSvg, isDarkTheme)} :
                      /\ cache' = MapSet(cache, cacheKey,
                                         [dataUri |-> dataUri, sizeBytes |-> sizeBytes,
                                          timestamp |-> now])
                      /\ hover' = createHover(dataUri, sizeBytes, range, commandArgs,
                                              originalSvg, FALSE)
  /\ UNCHANGED <<applied, workspaceVars, gutterVars, callVars, pipelineVars, codecVars,
                 mapVars, scanVars>>

\* an edit of the document: its text becomes another text
EditDocument(uri, text) ==
  /\ uri \in DOMAIN documents
  /\ text # documents[uri]
  /\ documents' = [documents EXCEPT ![uri] = text]
  /\ UNCHANGED <<clock, isDarkTheme, config, hoverVars, gutterVars, callVars, pipelineVars,
                 codecVars, mapVars, scanVars>>

\* time passes, half of cacheMaxAge at a time
ClockStep == cacheMaxAge \div 2

MaxTicks == 3

Tick ==
  /\ clock < MaxTicks * ClockStep
  /\ clock' = clock + ClockStep
  /\ UNCHANGED <<documents, isDarkTheme, config, hoverVars, gutterVars, callVars, pipelineVars,
                 codecVars, mapVars, scanVars>>

HoverUri == "file:///icon.tsx"

\* texts of the document: a fragment, the fragment with another colour,
\* and the fragment after a comment line
HoverTexts ==
  { "<svg fill=\"red\"><path /></svg>",
    "<svg fill=\"tan\"><path /></svg>",
    "// icon\n<svg fill=\"red\"><path /></svg>",
    "const a = 1" }

\* the positions the pointer is put at: the start of the document and the
\* inside of each fragment
PointerPositions(text) ==
  Call(LAMBDA matches : {0} \cup {matches[n].index + 1 : n \in 1..Len(matches)},
       SvgMatches(text))

NextHover ==
  \/ \E uri \in DOMAIN documents :
       \E position \in PointerPositions(documents[uri]) : ProvideHover(uri, position)
  \/ \E uri \in DOMAIN documents : \E text \in HoverTexts : EditDocument(uri, text)
  \/ Tick

InitHover ==
  /\ documents \in [{HoverUri} -> HoverTexts]
  /\ clock = 0
  /\ isDarkTheme \in BOOLEAN
  /\ config \in [enableHover : BOOLEAN, showGutterPreview : {TRUE}]
  /\ HoverIdle
  /\ GutterIdle
  /\ CallsIdle
  /\ svgContent = ""
  /\ options = [useCamelCase |-> TRUE]
  /\ PipelineIdle
  /\ CodecIdle
  /\ MapsIdle
  /\ ScanIdle

SpecHover == InitHover /\ [][NextHover]_vars

(***************************************************************************)
(* The command betterSvg.optimizeFromHover, run from the link of a hover   *)
(***************************************************************************)
\* document.positionAt(offset), as an offset: within the document
PositionAt(text, offset) == Min(Max(offset, 0), Len(text))

\* whether the optimizer's parser takes the text: one svg element and
\* nothing else; on any other text optimize throws
OptimizerAccepts(text) ==
  Call(LAMBDA matches : matches # <<>> /\ matches[1] = [index |-> 0, text |-> text],
       SvgMatches(text))

\* optimizeSvgInline(document, svgContent, range): the final text, Null
\* when the optimizer throws and the catch shows the error
OptimizedInline(text) ==
  Call(LAMBDA r :
         IF OptimizerAccepts(r.preparedSvg)
         THEN Str(finalizeAfterOptimization(r.preparedSvg, r.wasJsx, [useCamelCase |-> TRUE]))
         ELSE Null,
       prepareForOptimization(text, [useCamelCase |-> TRUE]))

\* the command with the arguments of the hover that is shown.  hoverSvg is
\* no part of the edit: it records the fragment the hover was built for
OptimizeFromHover ==
  /\ hover # Null
  /\ LET args == hover.commandArgs
         text == documents[args.uri]
         range == [start |-> PositionAt(text, args.start),
                   end |-> PositionAt(text, args.start + args.length)]
         inRange == Slice(text, range.start, range.end)
     IN \E final \in {OptimizedInline(inRange)} :
          IF args.length <= 0 \/ final = Null
          THEN UNCHANGED <<documents, applied>>
          ELSE /\ documents' = [documents EXCEPT ![args.uri] =
                                  Slice(text, 0, range.start) \o final.str
                                    \o SliceFrom(text, range.end)]
               /\ applied' = [uri |-> args.uri, range |-> range, replaced |-> inRange,
                              text |-> final.str, hoverSvg |-> hover.originalSvg]
  /\ UNCHANGED <<clock, isDarkTheme, config, cache, hover, gutterVars, callVars, pipelineVars,
                 codecVars, mapVars, scanVars>>

\* texts of the document: an icon, the icon after a line of text, another
\* icon of the same length put before it, and a text without a fragment
CommandTexts ==
  { "<svg className=\"a\"><path /></svg>",
    "// icon\n<svg className=\"a\"><path /></svg>",
    "<svg className=\"b\"><rect /></svg>\n<svg className=\"a\"><path /></svg>",
    "const a = 1" }

NextCommand ==
  \/ \E uri \in DOMAIN documents :
       \E position \in PointerPositions(documents[uri]) : ProvideHover(uri, position)
  \/ \E uri \in DOMAIN documents : \E text \in CommandTexts : EditDocument(uri, text)
  \/ OptimizeFromHover

InitCommand ==
  /\ documents \in [{HoverUri} -> CommandTexts]
  /\ clock = 0
  /\ isDarkTheme = FALSE
  /\ config = DefaultConfig
  /\ HoverIdle
  /\ GutterIdle
  /\ CallsIdle
  /\ svgContent = ""
  /\ options = [useCamelCase |-> TRUE]
  /\ PipelineIdle
  /\ CodecIdle
  /\ MapsIdle
  /\ ScanIdle

SpecCommand == InitCommand /\ [][NextCommand]_vars

(***************************************************************************)
(* SvgGutterPreview: the decoration types of the documents.  An editor is  *)
(* Str of the URI of its document, Undefined when there is none; a         *)
(* decoration type is its index in types.                                  *)
(***************************************************************************)
SeqRange(q) == {q[i] : i \in 1..Len(q)}

\* types.forEach(t => t.dispose())
DisposeTypes_Nothing(ts, ids) == ts

DisposeTypes(ts, ids) ==
  [id \in DOMAIN ts |-> IF id \in ids THEN [ts[id] EXCEPT !.disposed = TRUE] ELSE ts[id]]

\* window.createTextEditorDecorationType for each match of the text, in
\* order.  update is no part of a decoration type: it tells the
\* updateDecorations call that created it, by the first index of the call
NewDecorationTypes(uri, text, first, dark) ==
  Call(LAMBDA matches :
         [n \in 1..Len(matches) |->
            [uri |-> uri, update |-> first, disposed |-> FALSE,
             gutterIconPath |-> GutterDataUri(matches[n].text, dark)]],
       SvgMatches(text))

MaxTypes == 4

\* updateDecorations(editor)
UpdateDecorations(editor) ==
  /\ IF editor = Undefined
     THEN UNCHANGED gutterVars
     ELSE LET docUri == editor.str
              held == IF docUri \in DOMAIN decorationTypes
                      THEN SeqRange(decorationTypes[docUri]) ELSE {}
          IN IF config.showGutterPreview
             THEN \E created \in {NewDecorationTypes(docUri, documents[docUri], Len(types) + 1,
                                                     isDarkTheme)} :
                    /\ Len(types) + Len(created) <= MaxTypes
                    /\ types' = DisposeTypes(types, held) \o created
                    /\ decorationTypes' =
                         MapSet(decorationTypes, docUri,
                                [n \in 1..Len(created) |-> Len(types) + n])
             ELSE /\ types' = DisposeTypes(types, held)
                  /\ decorationTypes' = MapDelete(decorationTypes, docUri)
  /\ UNCHANGED <<workspaceVars, hoverVars, callVars, pipelineVars, codecVars, mapVars, scanVars>>

\* dispose()
Dispose ==
  /\ types' = DisposeTypes(types, UNION {SeqRange(decorationTypes[u]) : u \in DOMAIN decorationTypes})
  /\ decorationTypes' = EmptyMap
  /\ UNCHANGED <<workspaceVars, hoverVars, callVars, pipelineVars, codecVars, mapVars, scanVars>>

\* the user changes the setting betterSvg.showGutterPreview
SetShowGutterPreview(value) ==
  /\ config.showGutterPreview # value
  /\ config' = [config EXCEPT !.showGutterPreview = value]
  /\ UNCHANGED <<documents, clock, isDarkTheme, hoverVars, gutterVars, callVars, pipelineVars,
                 codecVars, mapVars, scanVars>>

GutterUris == {"file:///icon.tsx", "file:///logo.svg"}

\* texts of the documents: none, one and two fragments
GutterTexts ==
  { "const a = 1",
    "<svg viewBox=\"0 0 24 24\"><path /></svg>",
    "<svg><path /></svg>\n<svg strokeWidth={2}></svg>" }

NextGutter ==
  \/ \E editor \in {Str(u) : u \in DOMAIN documents} \cup {Undefined} :
       UpdateDecorations(editor)
  \/ Dispose
  \/ \E value \in BOOLEAN : SetShowGutterPreview(value)
  \/ \E uri \in DOMAIN documents : \E text \in GutterTexts : EditDocument(uri, text)

InitGutter ==
  /\ documents \in [GutterUris -> GutterTexts]
  /\ clock = 0
  /\ isDarkTheme = FALSE
  /\ config \in [enableHover : {TRUE}, showGutterPreview : BOOLEAN]
  /\ HoverIdle
  /\ GutterIdle
  /\ CallsIdle
  /\ svgContent = ""
  /\ options = [useCamelCase |-> TRUE]
  /\ PipelineIdle
  /\ CodecIdle
  /\ MapsIdle
  /\ ScanIdle

SpecGutter == InitGutter /\ [][NextGutter]_vars

(***************************************************************************)
(* Properties                                                              *)
(***************************************************************************)
\* C4: the placeholder encoding is reversible: decodeJsx(encodeJsx(x)) is x,
\* and never null, for every expression text x, the empty one and those with
\* quotes, angle brackets, braces or underscores included.
PlaceholderRoundTrip == pc = "decoded" => decoded = Str(content)

\* an expression text of three characters with a quote, a brace and an
\* underscore has been encoded and decoded
PlaceholderRoundTripWitness ==
  /\ pc = "decoded"
  /\ content = "\"{_"
  /\ decoded # Null

\* C5: the spelling map is a bijection: the reverse map sends the value of
\* every key back to the key, both maps have the same number of entries, and
\* no value of the forward map is one of its keys.
AttributeMapsBijective ==
  /\ Len(svgToJsxAttributeMap) = Len(jsxToSvgAttributeMap)
  /\ pc = "svg" => svgAttr # Undefined /\ ~HasKey(jsxToSvgAttributeMap, svgAttr.str)
  /\ pc = "back" => backAttr = Str(jsxAttr)

\* the last key of the map, xlinkHref, has been mapped to xlink:href and back
AttributeMapsBijectiveWitness ==
  /\ pc = "back"
  /\ jsxAttr = "xlinkHref"
  /\ svgAttr = Str("xlink:href")
  /\ backAttr = Str("xlinkHref")

\* the cycle has run prepareForOptimization
Prepared == pc \in {"prepared", "optimized", "done"}

\* C1: round trip under the identity optimizer: for every fragment that
\* isJsxSvg classifies as foreign and either value of useCamelCase,
\* finalizeAfterOptimization of the prepared fragment equals the fragment
\* character for character.
RoundTrip == pc = "done" /\ wasJsx => finalSvg = svgContent

\* C2: whenever isJsxSvg(fragment) is false, prepareForOptimization returns
\* wasJsx = false and preparedSvg identical to the fragment, for any options.
PlainFragmentUntouched ==
  Prepared /\ ~isJsxSvg(svgContent) => ~wasJsx /\ preparedSvg = svgContent

\* a fragment that is not foreign although it holds a placeholder value, a
\* class attribute and nothing else was prepared with useCamelCase true
PlainFragmentUntouchedWitness ==
  /\ pc = "prepared"
  /\ options.useCamelCase
  /\ svgContent = "<svg class=\"icon\" data-x=\"__JSX_BASE64__YQ==__\"></svg>"
  /\ ~wasJsx
  /\ preparedSvg = svgContent

\* C3: finalizeAfterOptimization(s, false, options) returns s unchanged for
\* every s and every options value, also when s holds placeholder tokens,
\* data-better-svg-temp-* attributes, data-spread-N attributes or kebab-case
\* attribute names.
FinalizePlainUnchanged ==
  pc \in {"done", "direct"} /\ ~wasJsx => finalSvg = optimizedSvg

\* finalizeAfterOptimization was called with false and useCamelCase true on a
\* fragment holding a protected attribute and a data-spread-0 placeholder
FinalizePlainUnchangedWitness ==
  /\ pc = "direct"
  /\ ~wasJsx
  /\ options.useCamelCase
  /\ optimizedSvg =
       "<svg data-better-svg-temp-__COLON__w=\"1\" data-spread-0=\"__JSX_BASE64__YQ==__\"></svg>"
  /\ finalSvg = optimizedSvg

\* C10: for <svg><path strokeWidth={2} /></svg> with useCamelCase true,
\* prepareForOptimization returns <svg><path stroke-width="2" /></svg>: a
\* literal numeral is emitted as the plain quoted value.
NumeralEmittedPlain ==
  /\ Prepared
  /\ svgContent = "<svg><path strokeWidth={2} /></svg>"
  /\ options.useCamelCase
  => preparedSvg = "<svg><path stroke-width=\"2\" /></svg>"

\* the fragment without its namespace-prefixed attributes of plain value
WithoutNamespaced(f) ==
  ReplaceAll(ReplaceAll(ReplaceAll(f, " xmlns:xlink=\"u\"", ""),
                        " xml:space=\"preserve\"", ""), " xlink:href=\"#a\"", "")

\* the name finalizeAfterOptimization writes for an attribute named name
FinalName(name) ==
  IF wasJsx /\ options.useCamelCase /\ HasKey(svgToJsxAttributeMap, name)
  THEN Get(svgToJsxAttributeMap, name).str
  ELSE name

DirectiveRoundTrip ==
  \A d \in QuotedDirectives :
    Includes(svgContent, " " \o AttrText(d)) =>
      /\ Prepared =>
           /\ wasJsx
           /\ Includes(preparedSvg, " " \o TEMP_PREFIX \o SafeAttr(d.name) \o "=")
      /\ pc = "done" => Includes(finalSvg, " " \o AttrText(d))

\* the number of attributes of f that are written with a value
ValuedCount(f) == Cardinality(AssignPositions(f))

\* C8: a protected attribute is restored by finalizeAfterOptimization as a
\* bare attribute if and only if it was valueless in the input of
\* prepareForOptimization: a valueless directive is carried as
\* data-better-svg-temp-...="__BOOLEAN__" and restored without a value, and a
\* directive written with a value, whatever it is, is restored with it.
BareIffValueless ==
  /\ \A b \in BareDirectives :
       Includes(svgContent, " " \o b) =>
         /\ Prepared =>
              Includes(preparedSvg, " " \o TEMP_PREFIX \o SafeAttr(b) \o "=\"__BOOLEAN__\"")
         /\ pc = "done" => Includes(finalSvg, " " \o b) /\ ~Includes(finalSvg, b \o "=")
  /\ \A d \in QuotedDirectives :
       Includes(svgContent, " " \o AttrText(d)) /\ pc = "done" =>
         Includes(finalSvg, "=\"" \o d.value \o "\"")
  /\ pc = "done" => ValuedCount(finalSvg) = ValuedCount(svgContent)

\* data-spread-k="<placeholder of the text as written>" for the k-th spread
SpreadAsStated(item, k) ==
  IF item.spread
  THEN "data-spread-" \o NumberToString(k) \o "=\"" \o encodeJsx(item.text) \o "\""
  ELSE item.text

\* the number of spreads among the first i items of l
RECURSIVE SpreadsBefore(_, _)
SpreadsBefore(l, i) ==
  IF i = 0 THEN 0 ELSE SpreadsBefore(l, i - 1) + (IF l[i].spread THEN 1 ELSE 0)

AttributeExpressionsRestored ==
  \A n \in ExpressionNames, e \in ExpressionTexts :
    Includes(svgContent, " " \o ExpressionAttr(n, e)) =>
      /\ Prepared =>
           /\ Includes(preparedSvg, "=\"" \o encodeJsx(e) \o "\"")
           /\ ~Includes(preparedSvg, "={" \o e \o "}")
      /\ pc = "done" => Includes(finalSvg, " " \o ExpressionAttr(n, e))

\* the order in which the claim has the stages follow one another
StageSteps ==
  { <<"start", "foreign">>, <<"foreign", "extracted">>, <<"extracted", "normalized">>,
    <<"normalized", "prepared">>, <<"start", "prepared">>, <<"prepared", "optimized">>,
    <<"optimized", "unprotected">>, <<"unprotected", "denormalized">>,
    <<"denormalized", "done">>, <<"optimized", "done">> }

\* C12: for a foreign fragment prepareForOptimization applies expression
\* extraction, then spelling normalization, then attribute protection, and
\* finalizeAfterOptimization with wasJsx true applies attribute unprotection,
\* then spelling denormalization, then placeholder decoding: the stages taken
\* one by one in this order give what the two functions return.
StagesInOrder ==
  /\ [](/\ pc = "prepared" /\ wasJsx => preparedSvg = convertJsxToSvg(svgContent, options)
        /\ pc = "done" /\ wasJsx => finalSvg = convertSvgToJsx(optimizedSvg, options)
        /\ pc \in {"foreign", "extracted", "normalized", "unprotected", "denormalized"}
             => wasJsx)
  /\ [][pc' # pc => <<pc, pc'>> \in StageSteps]_vars

\* a foreign fragment whose xlink:href holds an expression went through all
\* the stages with useCamelCase true: the protected name was restored before
\* the spelling was denormalized, so it came back as xlinkHref
StagesInOrderWitness ==
  /\ pc = "done"
  /\ wasJsx
  /\ options.useCamelCase
  /\ svgContent = "<svg xlink:href={u}><path d=\"M0 0\" /></svg>"
  /\ optimizedSvg =
       "<svg data-better-svg-temp-xlink__COLON__href=\"__JSX_BASE64__dQ==__\"><path d=\"M0 0\" /></svg>"
  /\ finalSvg = "<svg xlinkHref={u}><path d=\"M0 0\" /></svg>"

\* the attribute names the normalizer knows, in both spellings
SpellingNames ==
  {"className", "class"}
    \cup {jsxToSvgAttributeMap[j][1] : j \in 1..Len(jsxToSvgAttributeMap)}
    \cup {jsxToSvgAttributeMap[j][2] : j \in 1..Len(jsxToSvgAttributeMap)}

\* the number of places of s where name stands as a word right before '='
AssignCount(s, name) == Cardinality(WordAssignMatches(s, name, AssignPositions(s)))

\* C13: with useCamelCase false the normalizer is a no-op in both
\* directions: the normalization stage and the denormalization stage leave
\* the fragment as they got it, and every attribute name of either spelling
\* stands in the output as often as in the input.
NormalizerIdle ==
  ~options.useCamelCase =>
    /\ pc = "normalized" => preparedSvg = ExtractExpressions(svgContent)
    /\ pc = "denormalized" => finalSvg = restoreEncodedAttributes(optimizedSvg)
    /\ pc = "prepared" /\ wasJsx =>
         preparedSvg = protectEncodedAttributes(ExtractExpressions(svgContent))
    /\ pc = "done" /\ wasJsx =>
         \A n \in SpellingNames : AssignCount(finalSvg, n) = AssignCount(svgContent, n)

\* a foreign fragment with a className and a stroke-width attribute went
\* through all the stages with useCamelCase false and came back as it was
NormalizerIdleWitness ==
  /\ pc = "done"
  /\ wasJsx
  /\ ~options.useCamelCase
  /\ svgContent = "<svg className=\"icon\" stroke-width=\"2\"><path d=\"M0 0\" /></svg>"
  /\ finalSvg = svgContent

\* C14: with useCamelCase true convertJsxToSvg rewrites a camelCase map key
\* only when it is the entire attribute name: an attribute data-strokeWidth
\* of the input is still named data-strokeWidth after the normalization.
WholeNameOnly ==
  /\ pc \in {"normalized", "prepared"}
  /\ wasJsx
  /\ options.useCamelCase
  /\ Includes(svgContent, " data-strokeWidth=\"test\"")
  => /\ Includes(preparedSvg, " data-strokeWidth=\"test\"")
     /\ ~Includes(preparedSvg, " data-stroke-width=\"test\"")

\* C15: the directive signal of isJsxSvg fires only on attribute names: a
\* fragment of plain markup (standard attribute names, quoted values, no
\* braces) where directive-shaped text stands only inside a quoted attribute
\* value or inside element text is classified not foreign.
DirectiveOnlyOnNames ==
  /\ Prepared
  /\ svgContent \in FragmentsOf(DetectAttrs, DetectPlainTexts, MaxDetectAttrs)
  => ~wasJsx

\* C16: a fragment that is otherwise plain markup and whose only braces lie
\* inside style blocks is classified not foreign, and an otherwise plain
\* fragment with a brace pair in element text outside any style block is
\* classified foreign.
StyleBlocksExempt ==
  Prepared =>
    /\ svgContent \in FragmentsOf({"viewBox=\"0 0 24 24\"", "fill=\"red\""},
                                  DetectStyleTexts, MaxDetectAttrs)
         => ~wasJsx
    /\ svgContent \in FragmentsOf({"viewBox=\"0 0 24 24\"", "fill=\"red\""},
                                  DetectBraceTexts, MaxDetectAttrs)
         => wasJsx

\* the expressions of the universe with a brace inside a string literal
BraceInStringTexts ==
  {e \in ExpressionTexts : Includes(e, "\"}\"") \/ Includes(e, "'}'")}

\* the expressions of the universe that are one double-quoted string literal
\* and nothing else
StringLiteralTexts ==
  {e \in ExpressionTexts :
     /\ Len(e) >= 2
     /\ At(e, 0) = "\""
     /\ At(e, Len(e) - 1) = "\""
     /\ ~Includes(e, " ")}

\* C17: started after the delimiter ={ with depth 1, the scan ends at the
\* brace that matches the delimiter: braces inside string literals do not
\* change the depth, so the extracted text is exactly the expression between
\* the delimiter and its matching brace.
ScanEndsAtMatchingBrace ==
  Prepared /\ wasJsx =>
    \A n \in ExpressionNames, e \in BraceInStringTexts :
      LET a == ExpressionAttr(n, e)
          i == IndexOf(svgContent, " " \o a, 0)
          startIdx == i + 1 + Len(n)
      IN i # -1 =>
           /\ MatchBrace(svgContent, startIdx + 2, 1, FALSE, "")
                = [found |-> TRUE, j |-> startIdx + 2 + Len(e) + 1]
           /\ Includes(preparedSvg, "=\"" \o encodeJsx(e) \o "\"")

\* C18: inside a string literal the scan leaves the string at the first
\* quote that is preceded by an even number of backslashes: an expression
\* that is one string literal, also one whose content ends with an escaped
\* backslash, is closed by its last quote and the expression is extracted.
StringClosedByUnescapedQuote ==
  Prepared /\ wasJsx =>
    \A n \in ExpressionNames, e \in StringLiteralTexts :
      LET a == ExpressionAttr(n, e)
          i == IndexOf(svgContent, " " \o a, 0)
          startIdx == i + 1 + Len(n)
      IN i # -1 =>
           /\ MatchBrace(svgContent, startIdx + 3, 1, TRUE, "\"").found
           /\ MatchBrace(svgContent, startIdx + 3, 1, TRUE, "\"").j
                = startIdx + 2 + Len(e) + 1
           /\ ~Includes(preparedSvg, a)

\* the not found branch is the one to be taken
NotFoundNext ==
  /\ scanPc = "loop"
  /\ cursor < Len(fragment)
  /\ DelimiterAt # -1
  /\ ~BraceSkipped
  /\ ~DelimiterMatch.found

\* C19: when a delimiter has no matching closing brace before the end of the
\* fragment, the delimiter is emitted unchanged and the scan resumes right
\* after it, so the call returns a result where every well-formed expression
\* is replaced and all other text stands as in the input.
FailOpen ==
  /\ [](scanPc = "returned" =>
          \A c \in ScanCases : c.content = fragment => result = c.expected[scanner])
  /\ [][NotFoundNext =>
          /\ result' = result \o Slice(fragment, cursor, DelimiterAt) \o Delimiter(scanner)
          /\ cursor' = DelimiterAt + Len(Delimiter(scanner))
          /\ scanPc' = "loop"]_vars

\* replaceJsxExpressions met ={ without a closing brace, left it as it was
\* and still replaced the expression after it
FailOpenWitness ==
  /\ scanPc = "returned"
  /\ scanner = "replaceJsxExpressions"
  /\ fragment = "<svg u={ a={x}><path /></svg>"
  /\ result = "<svg u={ a=\"" \o encodeJsx("x") \o "\"><path /></svg>"

\* C20: each of the three extractors terminates on every fragment: in every
\* iteration of the outer loop currentIndex strictly increases, it never
\* passes the end of the fragment, and every call returns.
ScanTerminates ==
  /\ [][scanPc = "loop" /\ scanPc' = "loop" => cursor' > cursor]_vars
  /\ [](cursor <= Len(fragment))
  /\ (scanPc = "loop" ~> scanPc = "returned")

\* replaceTextInterpolations returned after it had skipped the two braces of
\* the opening tag, taken the not found branch and taken the found branch
ScanTerminatesWitness ==
  /\ scanPc = "returned"
  /\ scanner = "replaceTextInterpolations"
  /\ fragment = "<svg u={ a={x}><text>{ z</text><text>{f(\"}\")}</text></svg>"
  /\ cursor < Len(fragment)
  /\ result = "<svg u={ a={x}><text>{ z</text><text>" \o encodeJsx("f(\"}\")")
                \o "</text></svg>"

\* C21: replaceTextInterpolations replaces a brace pair only when its '{'
\* lies in element text: a '{' inside a tag's attribute list is left as it
\* is, also when an earlier quoted value of the same tag holds a '>'.
TagBracesKept ==
  Prepared /\ wasJsx =>
    LET scanned == replaceTextInterpolations(replaceJsxExpressions(removeJsxComments(svgContent)))
    IN \A a \in TagBraces :
         Includes(svgContent, " " \o a) => Includes(scanned, " " \o a)

\* C22: with the identity optimizer every interpolation of element text is
\* back in place in the final fragment, also next to literal characters and
\* next to other interpolations, and no placeholder is left in it.
TextInterpolationsRestored ==
  /\ pc = "done"
  /\ wasJsx
  /\ svgContent \in FragmentsOf({"width=\"24\"", "className=\"icon\""}, InterpolatedTexts,
                                MaxTextAttrs)
  => /\ \A t \in InterpolatedTexts : Includes(svgContent, t) => Includes(finalSvg, t)
     /\ ~Includes(finalSvg, BASE64_PREFIX)

\* C27: in a foreign fragment that holds a style block, convertJsxToSvg
\* leaves the text of the style block unchanged: the CSS braces are not
\* extracted into placeholders.
StyleBlockKept ==
  /\ Prepared
  /\ wasJsx
  /\ Includes(svgContent, StyleBlock)
  => Includes(preparedSvg, StyleBlock)

\* C23: when finalizeAfterOptimization with wasJsx true meets an attribute
\* value or a text value with the placeholder prefix and suffix around a
\* content that is no valid base64, it leaves that value in the output as
\* it was: quoted, not rewritten to an expression.
UndecodableFramesKept ==
  pc = "direct" /\ wasJsx =>
    \A v \in InvalidFrames :
      /\ Includes(svgContent, " a=\"" \o v \o "\"") => Includes(finalSvg, " a=\"" \o v \o "\"")
      /\ Includes(svgContent, ">" \o v \o "<") => Includes(finalSvg, ">" \o v \o "<")

\* C24: protectEncodedAttributes renames only the attributes whose value
\* holds the placeholder prefix or whose name starts with a directive
\* prefix: every other attribute and all element text of a foreign fragment
\* stand in the prepared fragment as they were.
ProtectionKeepsTheRest ==
  Prepared /\ wasJsx =>
    /\ \A a \in DetectAttrs :
         Includes(svgContent, " " \o a) => Includes(preparedSvg, " " \o a)
    /\ \A t \in DetectPlainTexts :
         Includes(svgContent, t) =>
           /\ Includes(protectEncodedAttributes(svgContent), t)
           /\ Includes(preparedSvg, t)

\* the sanitized names of the universe
SafeNames == {SafeAttr(n) : n \in ProtectedNames}

\* C25: for every attribute name that protectEncodedAttributes protects,
\* the sanitized name is desanitized to the name itself, and two distinct
\* protected names never get the same sanitized name.
SanitizationInvertible ==
  /\ Cardinality(SafeNames) = Cardinality(ProtectedNames)
  /\ Prepared /\ wasJsx =>
       \A n \in ProtectedNames :
         svgContent = NamedFragment(n) =>
           /\ Includes(preparedSvg, " " \o TEMP_PREFIX \o SafeAttr(n) \o "=\"")
           /\ Includes(restoreEncodedAttributes(preparedSvg), "<svg " \o n \o "=\"")
  /\ pc = "done" /\ wasJsx => finalSvg = svgContent

\* an attribute whose name holds the three rewritten characters was
\* protected under its sanitized name and came back under its own
SanitizationInvertibleWitness ==
  /\ pc = "done"
  /\ wasJsx
  /\ svgContent = NamedFragment("@:.")
  /\ Includes(preparedSvg, " " \o TEMP_PREFIX \o "__AT____COLON____DOT__=\"")
  /\ finalSvg = svgContent

\* C26: under any interleaving of the callers' prepareForOptimization and
\* finalizeAfterOptimization calls on different fragments, each call returns
\* what it returns when it runs alone, every call starts its spread counter
\* at 0, and the two attribute maps are never changed.
CallsIndependent ==
  /\ attributeMaps = ModuleMaps
  /\ \A c \in DOMAIN calls :
       /\ calls[c].pc \in {"prepared", "optimized", "done"} =>
            /\ calls[c].spreadIndex = 0
            /\ [preparedSvg |-> calls[c].preparedSvg, wasJsx |-> calls[c].wasJsx]
                 = prepareForOptimization(calls[c].svgContent, calls[c].options)
       /\ calls[c].pc = "done" =>
            calls[c].finalSvg
              = finalizeAfterOptimization(calls[c].optimizedSvg, calls[c].wasJsx, calls[c].options)

\* a caller ran from start to end between the two calls of another one, and
\* both fragments hold spreads
CallsIndependentWitness ==
  /\ DOMAIN calls = CallIds
  /\ calls[1].pc = "optimized"
  /\ calls[2].pc = "done"
  /\ Includes(calls[1].preparedSvg, "data-spread-0=")
  /\ Includes(calls[2].preparedSvg, "data-spread-0=")
  /\ calls[2].finalSvg = calls[2].svgContent

\* C28: after any edits and provideHover calls, the preview image and the
\* size that provideHover returns are those of the fragment under the
\* pointer: an entry of the cache is never used for another text.
HoverFresh ==
  hover # Null =>
    /\ hover.dataUri = HoverDataUri(hover.originalSvg, isDarkTheme)
    /\ hover.sizeBytes = Len(hover.originalSvg)

\* C29: whatever edits come between the hover and the command,
\* betterSvg.optimizeFromHover only replaces a range whose text is the
\* fragment the hover was built for; otherwise it overwrites nothing.
CommandTargetsHovered ==
  applied # Null => applied.replaced = applied.hoverSvg

\* the decoration types held under some URI
HeldTypes == UNION {SeqRange(decorationTypes[u]) : u \in DOMAIN decorationTypes}

\* every decoration type that is not disposed is held under its document's
\* URI, and a URI holds only live types of its latest update
TypesTracked ==
  /\ \A id \in DOMAIN types :
       ~types[id].disposed =>
         /\ types[id].uri \in DOMAIN decorationTypes
         /\ id \in SeqRange(decorationTypes[types[id].uri])
  /\ \A u \in DOMAIN decorationTypes :
       \A id \in SeqRange(decorationTypes[u]) :
         /\ types[id].uri = u
         /\ ~types[id].disposed
         /\ \A other \in DOMAIN types : types[other].uri = u => types[other].update <= types[id].update

\* C30: after any updateDecorations and dispose calls, every decoration type
\* created and not yet disposed is held in decorationTypes under its
\* document's URI, a URI holds only the types of its latest update, and a
\* dispose call leaves the map empty and every decoration type disposed.
DecorationsNeverLeaked ==
  /\ []TypesTracked
  /\ [][Dispose => /\ decorationTypes' = EmptyMap
                   /\ \A id \in DOMAIN types' : types'[id].disposed]_vars

\* one document holds the two types of its second update, the type of its
\* first update is disposed, and the other document holds its own type
DecorationsNeverLeakedWitness ==
  /\ Len(types) = 4
  /\ \E u, v \in DOMAIN decorationTypes :
       /\ u # v
       /\ Len(decorationTypes[u]) = 2
       /\ Len(decorationTypes[v]) = 1
       /\ \E id \in DOMAIN types : types[id].uri = u /\ types[id].disposed

====
